---- MODULE Spec2Model ----
(***************************************************************************)
(* Model of the MIRCrew multi-magnet resolver:                             *)
(*   - the thread-id cache of MIRCrewExtractor (get / put / purge / evict  *)
(*     / save), src/extractors/mircrew_extractor.py;                       *)
(*   - the search orchestration (search_thread,                            *)
(*     search_thread_by_release_title) and the title parsing it uses;      *)
(*   - the episode codes read from file paths, magnet titles and magnet    *)
(*     contexts, and main() of src/main.py: the needed episodes and the    *)
(*     loop over the magnets of the thread;                                *)
(*   - the requests of extract_magnets_from_thread and of the Sonarr       *)
(*     client, src/api/sonarr_api.py, with their retries.                  *)
(*                                                                         *)
(* Time is counted in whole days.  Strings that the code formats or parses *)
(* (season numbers, cache keys, titles) are modelled as sequences of       *)
(* characters or tokens so that formatting and parsing are computed.       *)
(***************************************************************************)
EXTENDS Integers, Sequences, FiniteSets, TLC

VARIABLES
    thread_id_cache,  \* self.thread_id_cache: insertion-ordered dict, a sequence of entries
    cache_file,       \* content of mircrew_cache.yml
    now,              \* datetime.now(), in days
    ticks,            \* number of clock advances so far (bounds the run)
    op,               \* the last call: its name, arguments, result and what it did
    search,           \* the last title resolution: its title and, in order, what it did
    run,              \* one run of main() or of a function that sends requests: its
                      \* inputs, its position, its locals, the calls it made
    info              \* extract_episode_info: the page or the context texts and what
                      \* it returned

vars == <<thread_id_cache, cache_file, now, ticks, op, search, run, info>>

----------------------------------------------------------------------------
(* Program constants *)

cache_max_size == 100

TTL_DAYS == 180

(* Python's None *)
None == "None"

(* dict entry without a 'timestamp' key, and an entry whose timestamp does
   not parse with datetime.fromisoformat *)
NoTimestamp == -1

BadTimestamp == -2

----------------------------------------------------------------------------
(* Bounds of the model *)

(* entries already in the cache file when the extractor is constructed *)
NumPreloaded == 2

NumPreloadedFull == 99

MaxTicks == 1

----------------------------------------------------------------------------
(* Characters of a season string: the digits 0..9 and one non-digit letter *)

LetterX == 10

IsDigit(c) == c \in 0..9

IntSeason(n) == [kind |-> "int", n |-> n, chars |-> <<>>]

StrSeason(cs) == [kind |-> "str", n |-> 0, chars |-> cs]

(* Python truthiness of the season argument: 0 and "" are falsy *)
Truthy(season) ==
    IF season.kind = "int" THEN season.n # 0 ELSE season.chars # <<>>

(* int(season) succeeds *)
IsNumeric(season) ==
    IF season.kind = "int" THEN TRUE
    ELSE /\ season.chars # <<>>
         /\ \A i \in 1..Len(season.chars) : IsDigit(season.chars[i])

RECURSIVE DigitsValue(_)
DigitsValue(cs) ==
    IF cs = <<>> THEN 0
    ELSE 10 * DigitsValue(SubSeq(cs, 1, Len(cs) - 1)) + cs[Len(cs)]

(* int(season) *)
IntValue(season) ==
    IF season.kind = "int" THEN season.n ELSE DigitsValue(season.chars)

RECURSIVE Decimal(_)
Decimal(n) ==
    IF n < 10 THEN <<n>> ELSE Append(Decimal(n \div 10), n % 10)

(* f"{n:02d}" for n >= 0 *)
Format02d(n) == IF n < 10 THEN <<0, n>> ELSE Decimal(n)

(* cache_key = f"{series_title} S{season_num:02d}", or f"{series_title} S{season}"
   when int(season) raises *)
CacheKeyNoPad(series, season) ==
    [series |-> series,
     tag |-> IF IsNumeric(season) THEN Decimal(IntValue(season)) ELSE season.chars]

CacheKey(series, season) ==
    [series |-> series,
     tag |-> IF IsNumeric(season) THEN Format02d(IntValue(season)) ELSE season.chars]

NoKey == [series |-> "", tag |-> <<>>]

----------------------------------------------------------------------------
(* The ordered dict *)

Keys(cache) == {cache[i].key : i \in 1..Len(cache)}

HasKey(cache, key) == key \in Keys(cache)

IndexOf(cache, key) == CHOOSE i \in 1..Len(cache) : cache[i].key = key

Lookup(cache, key) == cache[IndexOf(cache, key)]

Entries(cache) == {cache[i] : i \in 1..Len(cache)}

(* del d[key] *)
Delete(cache, key) == SelectSeq(cache, LAMBDA e : e.key # key)

(* d[key] = value: an existing key keeps its position, a new key goes last *)
Assign(cache, key, thread_id, ts) ==
    LET e == [key |-> key, thread_id |-> thread_id, timestamp |-> ts]
    IN IF HasKey(cache, key)
       THEN [cache EXCEPT ![IndexOf(cache, key)] = e]
       ELSE Append(cache, e)

----------------------------------------------------------------------------
(* Expiry *)

(* entry_date < datetime.now() - timedelta(days=180) *)
OlderThanTTLInclusive(ts, t) == ts <= t - TTL_DAYS

OlderThanTTL(ts, t) == ts < t - TTL_DAYS

(* the test of _clean_expired_entries: expired, malformed or missing timestamp *)
PurgeRemoves(e, t) ==
    \/ e.timestamp = NoTimestamp
    \/ e.timestamp = BadTimestamp
    \/ OlderThanTTL(e.timestamp, t)

_clean_expired_entries(cache, t) ==
    SelectSeq(cache, LAMBDA e : ~PurgeRemoves(e, t))

----------------------------------------------------------------------------
(* Eviction *)

(* keep_count = int(self.cache_max_size * 0.8) *)
keep_count == (cache_max_size * 8) \div 10

TimestampsOf(cache) == {cache[i].timestamp : i \in 1..Len(cache)}

RECURSIVE SortOldestFirst(_, _, _)
SortOldestFirst(entries, lo, hi) ==
    IF entries = <<>> \/ lo >= hi THEN entries
    ELSE LET mid == (lo + hi) \div 2
         IN SortOldestFirst(SelectSeq(entries, LAMBDA e : e.timestamp <= mid), lo, mid)
            \o SortOldestFirst(SelectSeq(entries, LAMBDA e : e.timestamp > mid), mid + 1, hi)

(* sorted(items, key=timestamp, reverse=True) for timestamps in lo..hi: newest
   first; the sort is stable, entries of equal timestamp keep their dict order *)
RECURSIVE SortNewestFirst(_, _, _)
SortNewestFirst(entries, lo, hi) ==
    IF entries = <<>> \/ lo >= hi THEN entries
    ELSE LET mid == (lo + hi) \div 2
         IN SortNewestFirst(SelectSeq(entries, LAMBDA e : e.timestamp > mid), mid + 1, hi)
            \o SortNewestFirst(SelectSeq(entries, LAMBDA e : e.timestamp <= mid), lo, mid)

sorted_entries(cache) ==
    LET tss == TimestampsOf(cache)
    IN IF cache = <<>> THEN <<>>
       ELSE SortNewestFirst(cache,
                CHOOSE x \in tss : \A y \in tss : x <= y,
                CHOOSE x \in tss : \A y \in tss : y <= x)

(* dict(sorted_entries[:keep_count]) *)
KeepNewest(cache, k) ==
    LET sorted == sorted_entries(cache)
    IN SubSeq(sorted, 1, IF k < Len(sorted) THEN k ELSE Len(sorted))

ManageStrict(cache, t) ==
    LET cleaned == _clean_expired_entries(cache, t)
    IN IF Len(cleaned) > cache_max_size
       THEN KeepNewest(cleaned, keep_count)
       ELSE cleaned

ManageEvictFirst(cache, t) ==
    _clean_expired_entries(
        IF Len(cache) >= cache_max_size THEN KeepNewest(cache, keep_count) ELSE cache, t)

(* _manage_cache_size: purge, then evict down to keep_count when still at the cap *)
_manage_cache_size(cache, t) ==
    LET cleaned == _clean_expired_entries(cache, t)
    IN IF Len(cleaned) >= cache_max_size
       THEN KeepNewest(cleaned, keep_count)
       ELSE cleaned

----------------------------------------------------------------------------
(* The cache file.  A YAML mapping: the entries as a set, written in key
   order; parse_ok is FALSE when yaml.safe_load raises on the content *)

FileOf(cache) == [parse_ok |-> TRUE, entries |-> Entries(cache)]

RECURSIVE SeqLess(_, _)
SeqLess(a, b) ==
    IF b = <<>> THEN FALSE
    ELSE IF a = <<>> THEN TRUE
    ELSE IF a[1] # b[1] THEN a[1] < b[1]
    ELSE SeqLess(Tail(a), Tail(b))

(* the series titles of the model in string order *)
SeriesOrder == <<"", "A", "Apollos13", "F", "Show", "Show -", "Z">>

SeriesRank(s) == CHOOSE i \in 1..Len(SeriesOrder) : SeriesOrder[i] = s

(* string order of the keys, the order yaml.dump writes them in *)
KeyLess(k1, k2) ==
    \/ SeriesRank(k1.series) < SeriesRank(k2.series)
    \/ k1.series = k2.series /\ SeqLess(k1.tag, k2.tag)

(* index of the entry yaml.dump writes first among cache[lo..hi] *)
RECURSIVE FirstWritten(_, _, _)
FirstWritten(cache, lo, hi) ==
    IF lo >= hi THEN lo
    ELSE LET mid == (lo + hi) \div 2
             a == FirstWritten(cache, lo, mid)
             b == FirstWritten(cache, mid + 1, hi)
         IN IF KeyLess(cache[b].key, cache[a].key) THEN b ELSE a

(* the first k entries in file order *)
RECURSIVE FilePrefix(_, _)
FilePrefix(cache, k) ==
    IF k = 0 \/ cache = <<>> THEN {}
    ELSE LET e == cache[FirstWritten(cache, 1, Len(cache))]
         IN {e} \cup FilePrefix(Delete(cache, e.key), k - 1)

(* the entry written after the first k *)
FileNext(cache, k) ==
    LET done == FilePrefix(cache, k)
        rest == SelectSeq(cache, LAMBDA e : e \notin done)
    IN IF rest = <<>> THEN {} ELSE {rest[FirstWritten(rest, 1, Len(rest))]}

SaveOutcomes == {"ok", "open_failed", "cut_in_entry", "cut_garbled"}

(* number of whole entries on disk when a dump is cut short *)
CutPoint == 1

(* save_cache: open(..., 'w') truncates the file, yaml.dump then writes the
   mapping entry by entry (thread_id before timestamp inside an entry).
   Every exception is caught and logged.  outcome says how far the write got:
     ok            the dump completed
     open_failed   open raised, the file is untouched
     cut_in_entry  the dump stopped after cut whole entries and the thread_id
                   line of the next entry
     cut_garbled   the dump stopped inside a line: the file no longer parses *)
save_cache(cache, old_file, outcome, cut) ==
    LET S == cache
    IN CASE outcome = "ok" -> FileOf(cache)
         [] outcome = "open_failed" -> old_file
         [] outcome = "cut_in_entry" ->
                [parse_ok |-> TRUE,
                 entries |-> FilePrefix(S, cut) \cup
                     {[e EXCEPT !.timestamp = NoTimestamp] : e \in FileNext(S, cut)}]
         [] OTHER -> [parse_ok |-> FALSE, entries |-> {}]

----------------------------------------------------------------------------
(* Release titles.  A title is a sequence of tokens separated by single
   spaces.  A token records what the regular expressions of the extractor
   see in it:
     head   its text up to a final "-word" part
     hy     the final "-word" part of its text, "" if it has none
     ext    a file extension the title ends with, "" if it has none
     sdig   the digits after the first letter S that is followed by a digit
     kwdig  the digits after the keyword Stagione or Season
     yr     a year 19xx or 20xx standing in it as a word                     *)

Tok(kind, head) ==
    [kind |-> kind, head |-> head, hy |-> "", ext |-> "", sdig |-> <<>>,
     kwdig |-> <<>>, yr |-> ""]

DigitChar == <<"0", "1", "2", "3", "4", "5", "6", "7", "8", "9">>

RECURSIVE DigitsText(_)
DigitsText(ds) ==
    IF ds = <<>> THEN "" ELSE DigitChar[ds[1] + 1] \o DigitsText(Tail(ds))

Word(text) == Tok("word", text)

Dash == Tok("dash", "-")

(* SxxEyy *)
SE(s, e) ==
    [Tok("se", "S" \o DigitsText(s) \o "E" \o DigitsText(e)) EXCEPT !.sdig = s]

(* SxxEyy-Ezz *)
SERange(s, e, f) ==
    [Tok("serange", "S" \o DigitsText(s) \o "E" \o DigitsText(e))
        EXCEPT !.hy = "-E" \o DigitsText(f), !.sdig = s]

Stagione(n) == [Tok("stagione", "Stagione " \o DigitsText(n)) EXCEPT !.kwdig = n]

Season(n) == [Tok("season", "Season " \o DigitsText(n)) EXCEPT !.kwdig = n]

(* 1080p|720p|2160p|4K|UHD, and any other \d{3,4}p *)
Res(text) == Tok("res", text)

ResOther(text) == Tok("res_other", text)

(* BluRay|WEB-DL|HDTV *)
Src(text) == Tok("src", text)

(* H264|H265|x264|x265|AVC|HEVC, and XviD|DivX *)
Codec(text) == Tok("codec", text)

Codec2(text) == Tok("codec2", text)

Year(text) == [Tok("year", text) EXCEPT !.yr = text]

(* "[text]" and "(year)" *)
Bracket(text) == Tok("bracket", "[" \o text \o "]")

Paren(year) == [Tok("paren", "(" \o year \o ")") EXCEPT !.yr = year]

WithGroup(t, group) == [t EXCEPT !.hy = "-" \o group]

WithExt(t, ext) == [t EXCEPT !.ext = "." \o ext]

Text(t) == t.head \o t.hy \o t.ext

(* the title as the string the code receives *)
RECURSIVE Join(_)
Join(toks) ==
    IF toks = <<>> THEN ""
    ELSE IF Len(toks) = 1 THEN Text(toks[1])
    ELSE Text(toks[1]) \o " " \o Join(Tail(toks))

(* re.search: index of the leftmost token that matches, 0 if none does *)
FirstIndex(toks, P(_)) ==
    LET S == {i \in 1..Len(toks) : P(toks[i])}
    IN IF S = {} THEN 0 ELSE CHOOSE i \in S : \A j \in S : i <= j

(* absence of a digit string; a string that is absent is None *)
NoDigits == <<>>

(* _extract_season_number: the capture of the first pattern, in the order
   S(\d+), Stagione\s*(\d+), Season\s*(\d+), that matches anywhere in the title *)
_extract_season_number(title) ==
    LET s == FirstIndex(title, LAMBDA t : t.sdig # <<>>)
        it == FirstIndex(title, LAMBDA t : t.kind = "stagione")
        en == FirstIndex(title, LAMBDA t : t.kind = "season")
    IN IF s # 0 THEN title[s].sdig
       ELSE IF it # 0 THEN title[it].kwdig
       ELSE IF en # 0 THEN title[en].kwdig
       ELSE NoDigits

(* _extract_resolution, _extract_codec, _extract_year *)
_extract_resolution(title) ==
    LET a == FirstIndex(title, LAMBDA t : t.kind = "res")
        b == FirstIndex(title, LAMBDA t : t.kind \in {"res", "res_other"})
    IN IF a # 0 THEN title[a].head ELSE IF b # 0 THEN title[b].head ELSE None

_extract_codec(title) ==
    LET a == FirstIndex(title, LAMBDA t : t.kind = "codec")
        b == FirstIndex(title, LAMBDA t : t.kind = "codec2")
    IN IF a # 0 THEN title[a].head ELSE IF b # 0 THEN title[b].head ELSE None

_extract_year(title) ==
    LET a == FirstIndex(title, LAMBDA t : t.yr # "")
    IN IF a # 0 THEN title[a].yr ELSE None

(* _extract_base_series_name *)

Front(toks) == SubSeq(toks, 1, Len(toks) - 1)

(* re.sub(r'\s*\[.*?\]', '') and re.sub(r'\s*\([^)]*\)\s*$', '') *)
NoBrackets(title) == SelectSeq(title, LAMBDA t : t.kind # "bracket")

NoTrailingParen(title) ==
    IF title # <<>> /\ title[Len(title)].kind = "paren"
          /\ Text(title[Len(title)]) = title[Len(title)].head
    THEN Front(title) ELSE title

(* index of the token that follows the whitespace the multi-episode pattern
   matches after its lazy group(1); 0 if re.match fails *)
MultiEpisodeAt(title) ==
    LET S == {i \in 2..Len(title) : title[i].kind = "serange"}
    IN IF S = {} THEN 0 ELSE CHOOSE i \in S : \A j \in S : i <= j

(* leftmost match of "\s*-\s*" followed by a token of one of the kinds, and of
   "\s+" followed by one: the index of the token where the match starts *)
DashThen(title, kind) ==
    LET S == {i \in 1..(Len(title) - 1) :
                 title[i].kind = "dash" /\ title[i + 1].kind = kind}
    IN IF S = {} THEN 0 ELSE CHOOSE i \in S : \A j \in S : i <= j

SpaceThen(title, kind) ==
    LET S == {i \in 2..Len(title) : title[i].kind = kind}
    IN IF S = {} THEN 0 ELSE CHOOSE i \in S : \A j \in S : i <= j

(* season_patterns, first pattern that matches wins: where series_name is cut *)
SeasonPatternAt(title) ==
    LET cuts == <<DashThen(title, "se"), DashThen(title, "stagione"),
                  DashThen(title, "season"), SpaceThen(title, "se"),
                  SpaceThen(title, "season"), SpaceThen(title, "stagione")>>
        hit == {k \in 1..Len(cuts) : cuts[k] # 0}
    IN IF hit = {} THEN 0 ELSE cuts[CHOOSE k \in hit : \A j \in hit : k <= j]

(* re.sub(r'[-\s]+$', '') *)
RECURSIVE StripDashes(_)
StripDashes(toks) ==
    IF toks # <<>> /\ toks[Len(toks)].kind = "dash"
    THEN StripDashes(Front(toks)) ELSE toks

_extract_base_series_name(release_title) ==
    LET title == NoTrailingParen(NoBrackets(release_title))
        multi == MultiEpisodeAt(title)
        cut == SeasonPatternAt(title)
        series_name ==
            Join(StripDashes(IF cut = 0 THEN title ELSE SubSeq(title, 1, cut - 1)))
    IN IF multi # 0 THEN Join(SubSeq(title, 1, multi - 1))
       ELSE IF Len(series_name) >= 2 THEN series_name
       ELSE None

(* _clean_release_title_for_search: the extension at the end goes, then the
   words 1080p|720p|2160p|4K|UHD|BluRay|WEB-DL|HDTV, then a "-word" the
   title still ends with, then the spaces are collapsed *)
_clean_release_title_for_search(title) ==
    LET n == Len(title)
        noext == [i \in 1..n |->
                     IF i = n THEN [title[i] EXCEPT !.ext = ""] ELSE title[i]]
        nowords == [i \in 1..n |->
                       IF noext[i].kind \in {"res", "src"}
                       THEN [noext[i] EXCEPT !.head = ""] ELSE noext[i]]
        nogroup == [i \in 1..n |->
                       IF i = n THEN [nowords[i] EXCEPT !.hy = ""] ELSE nowords[i]]
    IN Join(SelectSeq(nogroup, LAMBDA t : Text(t) # ""))

(* "{base_title} Stagione {season_num} {' '.join(metadata_parts)}" etc. *)
MetadataParts(resolution, codec) ==
    IF resolution # None /\ codec # None THEN resolution \o " " \o codec
    ELSE IF resolution # None THEN resolution
    ELSE codec

Query(strategy, q) == [strategy |-> strategy, q |-> q]

(* the same queries with the year query moved in front of the others *)
EnhancedQueriesYearFirst(base_title, resolution, codec, year, season_num) ==
    LET tagged == resolution # None \/ codec # None
    IN IF base_title = None \/ base_title = "" THEN <<>>
       ELSE (IF year # None
             THEN <<Query("year-metadata", base_title \o " " \o year)>>
             ELSE <<>>)
            \o (IF season_num # NoDigits /\ tagged
                THEN <<Query("season-metadata",
                             base_title \o " Stagione " \o DigitsText(season_num)
                                 \o " " \o MetadataParts(resolution, codec))>>
                ELSE <<>>)
            \o (IF tagged
                THEN <<Query("metadata-only",
                             base_title \o " " \o MetadataParts(resolution, codec))>>
                ELSE <<>>)
            \o (IF resolution # None
                THEN <<Query("resolution-only", base_title \o " " \o resolution)>>
                ELSE <<>>)
            \o (IF codec # None
                THEN <<Query("codec-only", base_title \o " " \o codec)>>
                ELSE <<>>)

(* lines 854-894: the queries from the extracted components *)
EnhancedQueries(base_title, resolution, codec, year, season_num) ==
    LET tagged == resolution # None \/ codec # None
    IN IF base_title = None \/ base_title = "" THEN <<>>
       ELSE (IF season_num # NoDigits /\ tagged
             THEN <<Query("season-metadata",
                          base_title \o " Stagione " \o DigitsText(season_num)
                              \o " " \o MetadataParts(resolution, codec))>>
             ELSE <<>>)
            \o (IF tagged
                THEN <<Query("metadata-only",
                             base_title \o " " \o MetadataParts(resolution, codec))>>
                ELSE <<>>)
            \o (IF resolution # None
                THEN <<Query("resolution-only", base_title \o " " \o resolution)>>
                ELSE <<>>)
            \o (IF codec # None
                THEN <<Query("codec-only", base_title \o " " \o codec)>>
                ELSE <<>>)
            \o (IF year # None
                THEN <<Query("year-metadata", base_title \o " " \o year)>>
                ELSE <<>>)

(* the element of a one-element set: each component is computed once *)
The(S) == CHOOSE v \in S : TRUE

_extract_enhanced_search_queries(release_title) ==
    The({EnhancedQueries(base_title, resolution, codec, year, season_num) :
            base_title \in {_extract_base_series_name(release_title)},
            resolution \in {_extract_resolution(release_title)},
            codec \in {_extract_codec(release_title)},
            year \in {_extract_year(release_title)},
            season_num \in {_extract_season_number(release_title)}})

(* _extract_season_search_query: the query, or None *)
_extract_season_search_query(release_title) ==
    LET base_name == _extract_base_series_name(release_title)
        season_num == _extract_season_number(release_title)
    IN IF season_num # NoDigits /\ base_name # None /\ base_name # ""
       THEN base_name \o " - Stagione " \o DigitsText(season_num)
       ELSE None

(* str(season) of a season or episode argument *)
CharText(c) == IF c = LetterX THEN "x" ELSE DigitChar[c + 1]

RECURSIVE CharsText(_)
CharsText(cs) ==
    IF cs = <<>> THEN "" ELSE CharText(cs[1]) \o CharsText(Tail(cs))

SeasonText(season) ==
    IF season.kind = "int" THEN DigitsText(Decimal(season.n)) ELSE CharsText(season.chars)

(* f"{int(season):02d}" *)
SeasonText02d(season) == DigitsText(Format02d(IntValue(season)))

(* an argument that was not passed (None) *)
NoSeason == StrSeason(<<>>)

(* _build_enhanced_search_queries(release_title, series_title, season, episode):
   the strategies in order; raised when int(season) or int(episode) raises *)
_build_enhanced_search_queries(release_title, series_title, season, episode) ==
    LET literal == Join(release_title)
        clean_title == _clean_release_title_for_search(release_title)
        has_series == series_title # None /\ series_title # ""
        by_episode == has_series /\ Truthy(season) /\ Truthy(episode)
        raises == by_episode /\ ~(IsNumeric(season) /\ IsNumeric(episode))
        metadata_queries ==
            The({[i \in 1..Len(m) |-> Query("metadata_" \o m[i].strategy, m[i].q)] :
                    m \in {_extract_enhanced_search_queries(release_title)}})
    IN [raised |-> raises,
        queries |->
            IF raises THEN <<>>
            ELSE <<Query("exact_title", literal)>>
                 \o (IF clean_title # literal
                     THEN <<Query("clean_title", clean_title)>> ELSE <<>>)
                 \o (IF by_episode
                     THEN <<Query("series_season_ep",
                                  series_title \o " S" \o SeasonText02d(season)
                                      \o "E" \o SeasonText02d(episode)),
                            Query("series_season_ep_it",
                                  series_title \o " Stagione " \o SeasonText(season)
                                      \o " Episodio " \o SeasonText(episode))>>
                     ELSE IF has_series /\ Truthy(season)
                     THEN <<Query("series_season",
                                  series_title \o " Stagione " \o SeasonText(season)),
                            Query("series_season_en",
                                  series_title \o " Season " \o SeasonText(season))>>
                     ELSE IF has_series
                     THEN <<Query("series_only", series_title)>>
                     ELSE <<>>)
                 \o metadata_queries]

(* the queries of search_thread_by_release_title in the order it tries them *)
TitleQueries(release_title) ==
    LET season_query == _extract_season_search_query(release_title)
    IN <<Query("exact", Join(release_title))>>
       \o _extract_enhanced_search_queries(release_title)
       \o (IF season_query # None THEN <<Query("season-level", season_query)>>
           ELSE <<>>)

----------------------------------------------------------------------------
(* Thread URLs: the value of the t= parameter, "" when the link has none *)

NoUrl == [path |-> None, t |-> ""]

ThreadUrl(id) == [path |-> "viewtopic.php", t |-> id]

extract_thread_id_from_url(url) ==
    IF url = NoUrl THEN None ELSE IF url.t = "" THEN None ELSE url.t

(* search_thread_by_id: session_ok says that verify_session or login succeeded,
   alive that the thread page answered 200 at a viewtopic.php address *)
search_thread_by_id(thread_id, session_ok, alive) ==
    IF thread_id = None \/ thread_id = "" THEN NoUrl
    ELSE IF ~session_ok THEN NoUrl
    ELSE IF alive THEN ThreadUrl(thread_id)
    ELSE NoUrl

(* search_thread, lines 727-734: del self.thread_id_cache[cache_key] *)
InvalidateExpiredOnly(cache, series, season) ==
    IF IsNumeric(season) /\ HasKey(cache, CacheKey(series, season))
          /\ OlderThanTTL(Lookup(cache, CacheKey(series, season)).timestamp, now)
    THEN Delete(cache, CacheKey(series, season))
    ELSE cache

Invalidate(cache, series, season) ==
    IF IsNumeric(season) /\ HasKey(cache, CacheKey(series, season))
    THEN Delete(cache, CacheKey(series, season))
    ELSE cache

(* what a resolution did, in order *)
Event(ev, strategy, q, hit) == [ev |-> ev, strategy |-> strategy, q |-> q, hit |-> hit]

(* the queries issued when the forum answers the queries at the positions
   hits with a thread: up to and including the first hit *)
IssuedAll(queries, hits) ==
    [i \in 1..Len(queries) |->
        Event("query", queries[i].strategy, queries[i].q, i \in hits)]

IssuedQueries(queries, hits) ==
    LET H == {i \in 1..Len(queries) : i \in hits}
        last == IF H = {} THEN Len(queries) ELSE CHOOSE i \in H : \A j \in H : i <= j
    IN [i \in 1..last |->
           Event("query", queries[i].strategy, queries[i].q, i \in hits)]

----------------------------------------------------------------------------
(* Inputs *)

SeriesTitles == {"", "A"}

Seasons ==
    {IntSeason(0), IntSeason(1), StrSeason(<<0, 1>>), StrSeason(<<LetterX>>)}

ThreadIds == {"", "t1"}

TickSteps == {1, TTL_DAYS}

CacheTickSteps == {1, TTL_DAYS, TTL_DAYS + 1}

----------------------------------------------------------------------------
(* State after construction: load_cache has read the cache file written by
   earlier runs, n well-formed entries in file (key) order *)

PreKey(i) == CacheKey("Z", IntSeason(i))

PreTimestamp(i) == IF i = 2 THEN 0 ELSE 1 + ((i * 7) % 5)

Preloaded(n) ==
    [i \in 1..n |->
        [key |-> PreKey(i), thread_id |-> "t0", timestamp |-> PreTimestamp(i)]]

NoOp ==
    [name |-> "init", key |-> NoKey, arg |-> "", ret |-> None,
     purged |-> {}, evicted |-> {}]

NoSearch ==
    [call |-> "none", title |-> <<>>, session_ok |-> TRUE, events |-> <<>>,
     answers |-> <<>>, ret |-> NoUrl, raised |-> FALSE]

(* main() has not started, extract_episode_info has not been called *)
NoRun == [pc |-> "none"]

NoInfo == [call |-> "none"]

InitWith(cache) ==
    /\ thread_id_cache = cache
    /\ cache_file = FileOf(cache)
    /\ now = TTL_DAYS
    /\ ticks = 0
    /\ op = NoOp
    /\ search = NoSearch
    /\ run = NoRun
    /\ info = NoInfo

Init == InitWith(Preloaded(NumPreloaded))

InitFull == InitWith(Preloaded(NumPreloadedFull))

InitEmpty == InitWith(<<>>)

----------------------------------------------------------------------------
(* get_cached_thread_id(series_title, season): the value returned and the
   cache it leaves *)

GetResult(cache, series, season, t) ==
    LET key == CacheKey(series, season)
    IN IF series = "" \/ ~Truthy(season) THEN None
       ELSE IF ~HasKey(cache, key) THEN None
       ELSE LET e == Lookup(cache, key)
            IN IF e.timestamp = NoTimestamp THEN e.thread_id
               ELSE IF e.timestamp = BadTimestamp THEN None
               ELSE IF OlderThanTTL(e.timestamp, t) THEN None
               ELSE e.thread_id

(* a get that sweeps: finding its entry expired, it removes every expired
   entry of the cache *)
GetCacheSweeping(cache, series, season, t) ==
    LET key == CacheKey(series, season)
    IN IF series = "" \/ ~Truthy(season) THEN cache
       ELSE IF ~HasKey(cache, key) THEN cache
       ELSE LET e == Lookup(cache, key)
            IN IF e.timestamp = NoTimestamp THEN cache
               ELSE IF e.timestamp = BadTimestamp THEN _clean_expired_entries(cache, t)
               ELSE IF OlderThanTTL(e.timestamp, t) THEN _clean_expired_entries(cache, t)
               ELSE cache

GetCache(cache, series, season, t) ==
    LET key == CacheKey(series, season)
    IN IF series = "" \/ ~Truthy(season) THEN cache
       ELSE IF ~HasKey(cache, key) THEN cache
       ELSE LET e == Lookup(cache, key)
            IN IF e.timestamp = NoTimestamp THEN cache
               ELSE IF e.timestamp = BadTimestamp THEN Delete(cache, key)
               ELSE IF OlderThanTTL(e.timestamp, t) THEN Delete(cache, key)
               ELSE cache

get_cached_thread_id(series, season) ==
    /\ thread_id_cache' = GetCache(thread_id_cache, series, season, now)
    /\ op' = [name |-> "get",
              key |-> IF series = "" \/ ~Truthy(season) THEN NoKey
                      ELSE CacheKey(series, season),
              arg |-> "",
              ret |-> GetResult(thread_id_cache, series, season, now),
              purged |-> Keys(thread_id_cache)
                             \ Keys(GetCache(thread_id_cache, series, season, now)),
              evicted |-> {}]
    /\ UNCHANGED <<cache_file, now, ticks, search, run, info>>

----------------------------------------------------------------------------
(* cache_thread_id(series_title, season, thread_id) *)

(* the same test without the thread id *)
PutSkippedWithId(series, season, thread_id) == series = "" \/ ~Truthy(season)

PutSkipped(series, season, thread_id) ==
    series = "" \/ ~Truthy(season) \/ thread_id = ""

PutCache(cache, series, season, thread_id, t) ==
    IF PutSkipped(series, season, thread_id) THEN cache
    ELSE Assign(_manage_cache_size(cache, t), CacheKey(series, season), thread_id, t)

cache_thread_id(series, season, thread_id, outcome) ==
    LET skipped == PutSkipped(series, season, thread_id)
        cleaned == _clean_expired_entries(thread_id_cache, now)
        managed == _manage_cache_size(thread_id_cache, now)
        after == PutCache(thread_id_cache, series, season, thread_id, now)
    IN /\ thread_id_cache' = after
       /\ cache_file' = IF skipped THEN cache_file
                        ELSE save_cache(after, cache_file, outcome, CutPoint)
       /\ op' = [name |-> "put",
                 key |-> IF skipped THEN NoKey ELSE CacheKey(series, season),
                 arg |-> IF skipped THEN "" ELSE thread_id,
                 ret |-> None,
                 purged |-> IF skipped THEN {} ELSE Keys(thread_id_cache) \ Keys(cleaned),
                 evicted |-> IF skipped THEN {} ELSE Keys(cleaned) \ Keys(managed)]
       /\ UNCHANGED <<now, ticks, search, run, info>>

----------------------------------------------------------------------------
(* The clock advances between calls *)

Tick(d) ==
    /\ ticks < MaxTicks
    /\ now' = now + d
    /\ ticks' = ticks + 1
    /\ op' = [NoOp EXCEPT !.name = "tick"]
    /\ UNCHANGED <<thread_id_cache, cache_file, search, run, info>>

----------------------------------------------------------------------------

NextCache ==
    \/ \E s \in SeriesTitles, n \in Seasons : get_cached_thread_id(s, n)
    \/ \E s \in SeriesTitles, n \in Seasons, id \in ThreadIds,
          o \in SaveOutcomes : cache_thread_id(s, n, id, o)
    \/ \E d \in CacheTickSteps : Tick(d)

(* The cache operations on a cache file of earlier runs *)
SpecCache == Init /\ [][NextCache]_vars

----------------------------------------------------------------------------
(* The same operations on a cache that earlier runs have filled to one entry
   below the cap *)

FullSeasons ==
    {IntSeason(1), StrSeason(<<1>>), StrSeason(<<0, 1>>), IntSeason(2),
     StrSeason(<<LetterX>>)}

FullThreadIds == {"t1"}

NextFull ==
    \/ \E n \in FullSeasons : get_cached_thread_id("A", n)
    \/ \E n \in FullSeasons, id \in FullThreadIds : cache_thread_id("A", n, id, "ok")
    \/ \E d \in TickSteps : Tick(d)

SpecFull == InitFull /\ [][NextFull]_vars

----------------------------------------------------------------------------
(* Filling an empty cache with distinct keys, one put per day: the put on
   day k caches season k of series "F" *)

FillDay == now - TTL_DAYS + 1

PutFresh ==
    /\ op.name # "put"
    /\ cache_thread_id("F", IntSeason(FillDay), "t1", "ok")

NextDay ==
    /\ op.name = "put"
    /\ FillDay <= cache_max_size
    /\ now' = now + 1
    /\ op' = [NoOp EXCEPT !.name = "tick"]
    /\ UNCHANGED <<thread_id_cache, cache_file, ticks, search, run, info>>

NextFill == PutFresh \/ NextDay

SpecFill == InitEmpty /\ [][NextFill]_vars

----------------------------------------------------------------------------
(* search_thread(query): cache lookup, direct access by the cached id,
   invalidation of a stale id, forum search, caching of the thread found.
   session_ok and alive are the answers search_thread_by_id gets, found is what
   _perform_search returns, saved1 and saved2 how the two save_cache calls end *)

Known(series_title, digits) ==
    series_title # None /\ series_title # "" /\ digits # NoDigits

(* a lookup that stamps the entry it returns with the time of the lookup *)
LookupsRefreshing(series_title, season, known, session_ok, alive) ==
    LET cached_thread_id ==
            IF known THEN GetResult(thread_id_cache, series_title, season, now)
            ELSE None
        got == IF known THEN GetCache(thread_id_cache, series_title, season, now)
               ELSE thread_id_cache
        looked == [i \in DOMAIN got |->
                      IF got[i].key = CacheKey(series_title, season)
                      THEN [got[i] EXCEPT !.timestamp = now] ELSE got[i]]
        by_id == search_thread_by_id(cached_thread_id, session_ok, alive)
    IN [cached_thread_id |-> cached_thread_id,
        looked |-> looked,
        by_id |-> by_id,
        dropped |-> IF cached_thread_id # None /\ by_id = NoUrl
                    THEN Invalidate(looked, series_title, season) ELSE looked]

(* lines 716-734: the cache after the lookup and the invalidation, the id the
   lookup returned and the URL of the direct access *)
Lookups(series_title, season, known, session_ok, alive) ==
    LET cached_thread_id ==
            IF known THEN GetResult(thread_id_cache, series_title, season, now)
            ELSE None
        looked == IF known THEN GetCache(thread_id_cache, series_title, season, now)
                  ELSE thread_id_cache
        by_id == search_thread_by_id(cached_thread_id, session_ok, alive)
    IN [cached_thread_id |-> cached_thread_id,
        looked |-> looked,
        by_id |-> by_id,
        dropped |-> IF cached_thread_id # None /\ by_id = NoUrl
                    THEN Invalidate(looked, series_title, season) ELSE looked]

search_thread(query, session_ok, alive, found, saved1, saved2) ==
    \E series_title \in {_extract_base_series_name(query)},
       digits \in {_extract_season_number(query)} :
    \E c \in {Lookups(series_title, StrSeason(digits), Known(series_title, digits),
                      session_ok, alive)} :
    LET season == StrSeason(digits)
        known == Known(series_title, digits)
        direct == c.cached_thread_id # None /\ c.by_id # NoUrl
        file1 == IF c.dropped # c.looked
                 THEN save_cache(c.dropped, cache_file, saved1, CutPoint)
                 ELSE cache_file
        thread_url == IF direct THEN c.by_id ELSE found
        thread_id == extract_thread_id_from_url(thread_url)
        stores == /\ ~direct /\ thread_url # NoUrl /\ known /\ thread_id # None
                  /\ ~PutSkipped(series_title, season, thread_id)
    IN \E after \in {IF stores
                     THEN PutCache(c.dropped, series_title, season, thread_id, now)
                     ELSE c.dropped} :
       /\ query # <<>>
       /\ thread_id_cache' = after
       /\ cache_file' = IF stores THEN save_cache(after, file1, saved2, CutPoint)
                        ELSE file1
       /\ search' =
            [call |-> "search_thread", title |-> query, session_ok |-> session_ok,
             events |->
                 (IF known THEN <<Event("get", "", "", c.cached_thread_id # None)>>
                  ELSE <<>>)
                 \o (IF c.cached_thread_id # None
                     THEN <<Event("by_id", "", "", c.by_id # NoUrl)>> ELSE <<>>)
                 \o (IF c.dropped # c.looked
                     THEN <<Event("del", "", "", TRUE),
                            Event("save", "", "", saved1 = "ok")>>
                     ELSE <<>>)
                 \o (IF ~direct
                     THEN <<Event("query", "query", Join(query), found # NoUrl)>>
                     ELSE <<>>)
                 \o (IF stores
                     THEN <<Event("put", "", "", TRUE),
                            Event("save", "", "", saved2 = "ok")>>
                     ELSE <<>>),
             answers |-> <<>>, ret |-> thread_url, raised |-> FALSE]
       /\ op' = [NoOp EXCEPT !.name = "search_thread"]
       /\ UNCHANGED <<now, ticks, run, info>>

(* what the forum does with one search request: it answers with a result
   page that lists a thread, the request fails (connection error or HTTP error
   status), the page has no ul.topiclist.topics, or the list has no row with a
   viewtopic.php link *)
ForumAnswers == {"thread", "http_error", "no_container", "no_rows"}

_perform_searchUncaught(answer, found) ==
    [url |-> IF answer = "thread" THEN found ELSE NoUrl,
     raised |-> answer = "http_error"]

(* _perform_search: the URL of the first thread listed; the exception of the
   request is caught (lines 768-775) *)
_perform_search(answer, found) ==
    [url |-> IF answer = "thread" THEN found ELSE NoUrl, raised |-> FALSE]

(* search_thread_by_release_title(release_title): session_ok says that
   verify_session or the re-login succeeded; answers[i] is what the forum does
   with the i-th request, found the thread a result page lists.  The function
   returns at the first query that yields a thread; it has no handler of its
   own, so an exception of _perform_search would leave it at once *)
search_thread_by_release_title(release_title, session_ok, answers, found) ==
    \E queries \in {TitleQueries(release_title)} :
    \E results \in {[i \in 1..Len(queries) |-> _perform_search(answers[i], found)]} :
    \E issued \in {IF session_ok
                   THEN IssuedQueries(queries,
                            {i \in 1..Len(queries) :
                                results[i].url # NoUrl \/ results[i].raised})
                   ELSE <<>>} :
    LET raised == issued # <<>> /\ results[Len(issued)].raised
        thread_url == IF issued # <<>> /\ ~raised THEN results[Len(issued)].url
                      ELSE NoUrl
    IN /\ search' =
            [call |-> "search_thread_by_release_title", title |-> release_title,
             session_ok |-> session_ok, events |-> issued,
             answers |-> SubSeq(answers, 1, Len(issued)), ret |-> thread_url,
             raised |-> raised]
       /\ op' = [NoOp EXCEPT !.name = "search_thread_by_release_title"]
       /\ UNCHANGED <<thread_id_cache, cache_file, now, ticks, run, info>>

----------------------------------------------------------------------------
(* search_thread on release titles, against a cache of earlier runs *)

Apollos13 == [Word("Apollos13") EXCEPT !.sdig = <<1, 3>>]

SearchTitles ==
    {<<Word("Show"), Dash, SE(<<0, 1>>, <<0, 2>>)>>,
     <<Apollos13, Dash, SE(<<0, 1>>, <<0, 2>>), Res("1080p")>>,
     <<Word("S"), Dash, SE(<<0, 1>>, <<0, 2>>)>>}

FoundUrls == {ThreadUrl("t2"), ThreadUrl("")}

SearchSaveOutcomes == {"ok", "open_failed"}

SearchPreloaded ==
    <<[key |-> CacheKey("Apollos13", StrSeason(<<1, 3>>)), thread_id |-> "t1",
       timestamp |-> NoTimestamp],
      [key |-> CacheKey("Show", StrSeason(<<0, 1>>)), thread_id |-> "t1",
       timestamp |-> 0]>>

InitSearch == InitWith(SearchPreloaded)

NextSearch ==
    \/ \E q \in SearchTitles, ok \in BOOLEAN, alive \in BOOLEAN,
          found \in FoundUrls \cup {NoUrl}, saved \in SearchSaveOutcomes :
            search_thread(q, ok, alive, found, saved, saved)
    \/ \E d \in TickSteps : Tick(d)

SpecSearch == InitSearch /\ [][NextSearch]_vars

(* search_thread at one instant, also on a query without season marker, the
   two save_cache calls ending independently *)
LookupTitles == SearchTitles \cup {<<Word("Show"), Res("1080p")>>}

NextLookup ==
    \E q \in LookupTitles, ok \in BOOLEAN, alive \in BOOLEAN,
       found \in FoundUrls \cup {NoUrl}, saved1 \in SearchSaveOutcomes,
       saved2 \in SearchSaveOutcomes :
        search_thread(q, ok, alive, found, saved1, saved2)

SpecLookup == InitSearch /\ [][NextLookup]_vars

(* search_thread with a session that is valid, and cache_thread_id called
   directly, also with an empty series, a season 0 or an empty thread id *)
StoreSeasons == {IntSeason(0), IntSeason(1)}

NextStore ==
    \/ \E q \in LookupTitles, alive \in BOOLEAN, found \in FoundUrls \cup {NoUrl},
          saved \in SearchSaveOutcomes :
            search_thread(q, TRUE, alive, found, saved, saved)
    \/ \E s \in SeriesTitles, n \in StoreSeasons, id \in ThreadIds :
            cache_thread_id(s, n, id, "ok")

SpecStore == InitSearch /\ [][NextStore]_vars

----------------------------------------------------------------------------
(* Query generation and search_thread_by_release_title on one release title *)

(* most queries one title gives: the literal title, five from its metadata,
   the season-level one *)
MaxQueries == 7

(* most positions at which the forum answers with a thread *)
MaxHits == 1

HitSets == {h \in SUBSET (1..MaxQueries) : Cardinality(h) <= MaxHits}

(* the forum lists a thread for the queries at the positions hits, the request
   at position failed fails, the page at position empty has no container and
   the other pages list no thread *)
AnswersOf(hits, failed, empty) ==
    [i \in 1..MaxQueries |->
        IF i \in hits THEN "thread"
        ELSE IF i = failed THEN "http_error"
        ELSE IF i = empty THEN "no_container"
        ELSE "no_rows"]

TitleNames ==
    {<<Word("Show")>>, <<Apollos13>>, <<Word("S")>>, <<Word("Show"), Bracket("ITA")>>}

TitleSeparators == {<<Dash>>, <<>>}

TitleMarkers ==
    {<<SE(<<0, 1>>, <<0, 2>>)>>, <<SE(<<0, 5>>, <<0, 4>>)>>,
     <<SERange(<<0, 1>>, <<0, 2>>, <<0, 3>>)>>, <<Stagione(<<2>>)>>}

TitleTails ==
    {<<>>,
     <<Res("1080p")>>,
     <<Res("1080p"), Codec("H264"), Word("ITA")>>,
     <<WithGroup(Codec("x265"), "GRP")>>,
     <<Res("720p"), Paren("2023")>>,
     <<WithExt(Word("ITA"), "mkv")>>,
     <<ResOther("480p"), Codec2("XviD"), Year("2023")>>,
     <<WithExt(WithGroup(Src("WEB-DL"), "GRP"), "mkv")>>}

Titles ==
    {n \o s \o m \o t :
        n \in TitleNames, s \in TitleSeparators, m \in TitleMarkers, t \in TitleTails}

MetaSeries == {None, "A"}

MetaNumbers == {NoSeason, IntSeason(1), StrSeason(<<LetterX>>)}

InitTitle ==
    /\ thread_id_cache = SearchPreloaded
    /\ cache_file = FileOf(SearchPreloaded)
    /\ now = TTL_DAYS
    /\ ticks = 0
    /\ op = NoOp
    /\ search \in {[NoSearch EXCEPT !.title = t] : t \in Titles}
    /\ run = NoRun
    /\ info = NoInfo

(* _build_enhanced_search_queries applied to the title *)
BuildQueries(series_title, season, episode) ==
    \E built \in {_build_enhanced_search_queries(search.title, series_title,
                                                 season, episode)} :
       /\ search' =
            [call |-> "_build_enhanced_search_queries", title |-> search.title,
             session_ok |-> TRUE,
             events |-> [i \in 1..Len(built.queries) |->
                            Event("strategy", built.queries[i].strategy,
                                  built.queries[i].q, FALSE)],
             answers |-> <<>>, ret |-> NoUrl, raised |-> built.raised]
       /\ op' = [NoOp EXCEPT !.name = "_build_enhanced_search_queries"]
       /\ UNCHANGED <<thread_id_cache, cache_file, now, ticks, run, info>>

NextTitle ==
    \/ \E st \in MetaSeries, n \in MetaNumbers, e \in MetaNumbers :
            BuildQueries(st, n, e)
    \/ \E ok \in BOOLEAN, h \in HitSets, found \in FoundUrls :
            search_thread_by_release_title(search.title, ok,
                                           AnswersOf(h, 0, 0), found)

SpecTitle == InitTitle /\ [][NextTitle]_vars

(* search_thread_by_release_title against a forum that fails: the request of
   one query fails, the result page of another has no container *)
CascadeTitles ==
    {<<Word("Show"), Dash, SE(<<0, 1>>, <<0, 2>>), Res("1080p"), Codec("H264"),
       Word("ITA")>>,
     <<Apollos13, SE(<<0, 5>>, <<0, 4>>), Res("720p"), Paren("2023")>>,
     <<Word("Show"), Stagione(<<2>>)>>}

InitCascade ==
    /\ thread_id_cache = SearchPreloaded
    /\ cache_file = FileOf(SearchPreloaded)
    /\ now = TTL_DAYS
    /\ ticks = 0
    /\ op = NoOp
    /\ search \in {[NoSearch EXCEPT !.title = t] : t \in CascadeTitles}
    /\ run = NoRun
    /\ info = NoInfo

(* the positions of a result page without container; 0 is none *)
EmptyPositions == {0, 2}

NextCascade ==
    \E ok \in BOOLEAN, h \in HitSets, failed \in 0..MaxQueries,
       empty \in EmptyPositions, found \in FoundUrls :
        search_thread_by_release_title(search.title, ok,
                                       AnswersOf(h, failed, empty), found)

SpecCascade == InitCascade /\ [][NextCascade]_vars

----------------------------------------------------------------------------
(* Texts that carry episode markers: file paths, magnet titles, the text
   around a magnet link.  A text is a sequence of parts separated by spaces.
   A part records its kind and the digit strings the regular expressions
   capture in it:
     s   the digits after the letter S (or before the x, or after the keyword)
     e   the digits after the letter E (or after the x, or after Ep)
     f   the digits that end a range
   and whether its letters are written in lower case (s02e05).  All the
   regular expressions of the source are used with re.IGNORECASE. *)

Part(kind, s, e, f) == [kind |-> kind, s |-> s, e |-> e, f |-> f, lower |-> FALSE]

(* the same part with its letters in lower case *)
Lowered(part) == [part EXCEPT !.lower = TRUE]

(* a word without a marker, and a word whose letter s is followed by digits *)
Plain == Part("plain", <<>>, <<>>, <<>>)

PlainS(s) == Part("plain", s, <<>>, <<>>)

(* S01E05, S01E05-E07, S01E05-07 *)
SxEy(s, e) == Part("SxEy", s, e, <<>>)

SxEyEz(s, e, f) == Part("SxEy-Ez", s, e, f)

SxEyz(s, e, f) == Part("SxEy-z", s, e, f)

(* 1x05, 1x05-07 *)
NxM(s, e) == Part("NxM", s, e, <<>>)

NxMK(s, e, f) == Part("NxM-K", s, e, f)

(* Stagione 2, Season 2, Ep 7 *)
StagioneN(s) == Part("Stagione N", s, <<>>, <<>>)

SeasonN(s) == Part("Season N", s, <<>>, <<>>)

EpN(e) == Part("Ep N", <<>>, e, <<>>)

SxEyKinds == {"SxEy", "SxEy-Ez", "SxEy-z"}

NxMKinds == {"NxM", "NxM-K"}

(* the same code without the zero padding *)
CodeNoPad(season, ep) ==
    "S" \o DigitsText(Decimal(season)) \o "E" \o DigitsText(Decimal(ep))

(* f"S{season:02d}E{ep:02d}" *)
Code(season, ep) ==
    "S" \o DigitsText(Format02d(season)) \o "E" \o DigitsText(Format02d(ep))

(* the same groups when the optional end of a range is never read *)
PathGroupsNoRange(part) == <<part.s, part.e, <<>>>>

(* parse_needed_episodes: the groups (season, start, end) of the match of
   S(\d+)E(\d+)(?:-E(\d+))? or of (\d+)x(\d+)(?:-(\d+))? in a part; group 3 is
   empty when the optional end did not match *)
PathGroups(part) ==
    IF part.kind = "SxEy-Ez" \/ part.kind = "NxM-K" THEN <<part.s, part.e, part.f>>
    ELSE <<part.s, part.e, <<>>>>

(* the codes one match adds: range(start_ep, end_ep + 1) *)
MatchCodes(groups) ==
    LET season == DigitsValue(groups[1])
        start_ep == DigitsValue(groups[2])
        end_ep == IF groups[3] # <<>> THEN DigitsValue(groups[3]) ELSE start_ep
    IN {Code(season, ep) : ep \in start_ep..end_ep}

parse_needed_episodes(episode_path) ==
    UNION {MatchCodes(PathGroups(episode_path[i])) :
              i \in {j \in 1..Len(episode_path) :
                        episode_path[j].kind \in SxEyKinds \cup NxMKinds}}

(* extract_episode_codes: set(re.findall(r"S\d{2}E\d{2}", magnet_title)), the
   matched texts as they stand *)
extract_episode_codes(magnet_title) ==
    {(IF magnet_title[i].lower THEN "s" ELSE "S") \o DigitsText(magnet_title[i].s)
         \o (IF magnet_title[i].lower THEN "e" ELSE "E")
         \o DigitsText(SubSeq(magnet_title[i].e, 1, 2)) :
        i \in {j \in 1..Len(magnet_title) :
                  /\ magnet_title[j].kind \in SxEyKinds
                  /\ Len(magnet_title[j].s) = 2
                  /\ Len(magnet_title[j].e) >= 2}}

(* Season 2 Ep 5, Stagione 2 Ep 5, 5th Season Episode 3, 5th Season,
   Episodio 7, Episode 7 *)
SeasonNEpM(s, e) == Part("Season N Ep M", s, e, <<>>)

StagioneNEpM(s, e) == Part("Stagione N Ep M", s, e, <<>>)

NthSeasonEpisodeM(s, e) == Part("Nth Season Episode M", s, e, <<>>)

NthSeason(s) == Part("Nth Season", s, <<>>, <<>>)

EpisodioN(e) == Part("Episodio N", <<>>, e, <<>>)

EpisodeN(e) == Part("Episode N", <<>>, e, <<>>)

(* a pattern of the list: the branch that interprets its match and the kinds
   of part in which it finds a match *)
Pattern(form, kinds) == [form |-> form, kinds |-> kinds]

(* the same list with the season patterns moved in front of the combined ones *)
patternsSeasonFirst ==
    << Pattern("season", {"Stagione N", "Stagione N Ep M"}),
       Pattern("season", {"Season N", "Season N Ep M"}),
       Pattern("season", {"Nth Season", "Nth Season Episode M"}),
       Pattern("combined", SxEyKinds),
       Pattern("combined", NxMKinds),
       Pattern("combined", {"Nth Season Episode M"}),
       Pattern("combined", {"Season N Ep M"}),
       Pattern("combined", {"Stagione N Ep M"}),
       Pattern("episode", {"Ep N", "Season N Ep M", "Stagione N Ep M"}),
       Pattern("episode", {"Episodio N"}),
       Pattern("episode", {"Episode N", "Nth Season Episode M"}) >>

(* extract_episode_info, lines 1056-1073: the list of patterns in its order.
   The branches of lines 1082-1101 (i = 0..4) read a season and an episode,
   those of lines 1103-1111 (i = 5..7) a season, that of line 1113 (i >= 8) an
   episode.  A part "Season 2 Ep 5" is matched by the combined pattern 3 and
   also by Season\s*(\d+) and Ep\.?\s*(\d+) further down the list.  The last
   pattern of the source, Ep\s+(\d+), matches nothing that pattern 8 leaves. *)
patterns ==
    << Pattern("combined", SxEyKinds),
       Pattern("combined", NxMKinds),
       Pattern("combined", {"Nth Season Episode M"}),
       Pattern("combined", {"Season N Ep M"}),
       Pattern("combined", {"Stagione N Ep M"}),
       Pattern("season", {"Stagione N", "Stagione N Ep M"}),
       Pattern("season", {"Season N", "Season N Ep M"}),
       Pattern("season", {"Nth Season", "Nth Season Episode M"}),
       Pattern("episode", {"Ep N", "Season N Ep M", "Stagione N Ep M"}),
       Pattern("episode", {"Episodio N"}),
       Pattern("episode", {"Episode N", "Nth Season Episode M"}) >>

(* the kinds of part in which the digits s follow the letter S, a space
   between them or not: S02, Stagione 2, Season 2, a word that ends in s *)
SeasonContextKinds ==
    SxEyKinds \cup {"plain", "Stagione N", "Stagione N Ep M", "Season N", "Season N Ep M"}

(* the same search when the text is never looked at for a season *)
season_contextNever(text) == 0

(* line 1115: re.search(r'S(?:tagione|eason)?\s*(\d+)', text), the index of the
   part of its first match, 0 when there is none *)
season_context(text) ==
    FirstIndex(text, LAMBDA p : p.s # <<>> /\ p.kind \in SeasonContextKinds)

(* lines 1080-1122: what the match of a pattern returns *)
Interpret(form, part, text) ==
    IF form = "combined" THEN Code(DigitsValue(part.s), DigitsValue(part.e))
    ELSE IF form = "season" THEN Code(DigitsValue(part.s), 0)
    ELSE IF season_context(text) # 0
    THEN Code(DigitsValue(text[season_context(text)].s), DigitsValue(part.e))
    ELSE "E" \o DigitsText(Format02d(DigitsValue(part.e)))

(* lines 1077-1079 on one context text: the patterns are tried in the order of
   the list and the first that matches somewhere in the text decides, read on
   its first match in the text; "" when no pattern matches *)
InfoOfText(text) ==
    LET hits == {i \in 1..Len(patterns) :
                    \E j \in 1..Len(text) : text[j].kind \in patterns[i].kinds}
        first == CHOOSE i \in hits : \A h \in hits : i <= h
        at == FirstIndex(text, LAMBDA p : p.kind \in patterns[first].kinds)
    IN IF hits = {} THEN "" ELSE Interpret(patterns[first].form, text[at], text)

(* the context texts in order; the first text in which a pattern matches
   decides *)
RECURSIVE extract_episode_info(_)
extract_episode_info(context_texts) ==
    IF context_texts = <<>> THEN "Unknown"
    ELSE IF InfoOfText(context_texts[1]) # "" THEN InfoOfText(context_texts[1])
    ELSE extract_episode_info(Tail(context_texts))

----------------------------------------------------------------------------
(* main() of src/main.py *)

(* the Sonarr variables: season_number is a string of characters,
   episode_numbers the list episode_numbers.split(',') of such strings, each
   stripped; the empty string splits into one empty item *)
NoNumber == <<>>

NoEpisodes == <<NoNumber>>

AllDigits(cs) == cs # <<>> /\ \A i \in 1..Len(cs) : IsDigit(cs[i])

(* the same codes when an episode that is not a number is passed over *)
EpisodesFromVariablesSkipBad(season_number, episode_numbers) ==
    LET listed == SelectSeq(episode_numbers, LAMBDA ep : AllDigits(ep))
    IN IF season_number = NoNumber \/ episode_numbers = NoEpisodes THEN {}
       ELSE IF ~AllDigits(season_number) THEN {}
       ELSE {Code(DigitsValue(season_number), DigitsValue(listed[i])) :
                i \in 1..Len(listed)}

(* lines 331-338: the codes from the Sonarr variables; int() of a string that
   is not a number raises ValueError, which leaves needed_episodes empty *)
EpisodesFromVariables(season_number, episode_numbers) ==
    LET listed == SelectSeq(episode_numbers, LAMBDA ep : ep # NoNumber)
    IN IF season_number = NoNumber \/ episode_numbers = NoEpisodes THEN {}
       ELSE IF ~AllDigits(season_number) THEN {}
       ELSE IF \E i \in 1..Len(listed) : ~AllDigits(listed[i]) THEN {}
       ELSE {Code(DigitsValue(season_number), DigitsValue(listed[i])) :
                i \in 1..Len(listed)}

(* line 348: re.search(r'(?:stagione|season)\s*(\d+)', release_title) *)
season_match(release_title) ==
    LET at == FirstIndex(release_title, LAMBDA t : t.kind \in {"stagione", "season"})
    IN IF at = 0 THEN NoDigits ELSE release_title[at].kwdig

(* all episodes are processed only when the title names no season *)
ProcessAllUnlessSeason(needed_episodes, release_title) ==
    needed_episodes = {} /\ season_match(release_title) = NoDigits

(* lines 346-357: process_all_episodes is set on both branches *)
ProcessAll(needed_episodes, release_title) == needed_episodes = {}

(* lines 327-357: needed_episodes and process_all_episodes, and the sources
   that were consulted, in order *)
NeededEpisodes(season_number, episode_numbers, episode_file_relative_path, release_title) ==
    LET both == season_number # NoNumber /\ episode_numbers # NoEpisodes
        from_variables == EpisodesFromVariables(season_number, episode_numbers)
        use_path == from_variables = {} /\ episode_file_relative_path # <<>>
        needed_episodes ==
            IF use_path THEN parse_needed_episodes(episode_file_relative_path)
            ELSE from_variables
    IN [needed_episodes |-> needed_episodes,
        process_all_episodes |-> ProcessAll(needed_episodes, release_title),
        extracted_season |->
            IF needed_episodes = {} THEN season_match(release_title) ELSE NoDigits,
        sources |-> (IF both THEN <<"variables">> ELSE <<>>)
                    \o (IF use_path THEN <<"file_path">> ELSE <<>>)
                    \o (IF needed_episodes = {} THEN <<"release_title">> ELSE <<>>)]

(* A magnet link: the text after urn:btih: and its form.  Only 40 or 32
   hexadecimal characters are a hash for get_torrent_hash_from_magnet *)
Magnet(btih, form) == [btih |-> btih, form |-> form]

(* str.lower() of the hashes of the model *)
Lower(h) == IF h = "AA" THEN "aa" ELSE IF h = "BB" THEN "bb" ELSE h

get_torrent_hash_from_magnet(magnet_url) ==
    IF magnet_url.form \in {"hex40", "hex32"} THEN Lower(magnet_url.btih) ELSE None

(* a search that takes a torrent with another hash *)
find_original_torrentOther(original_torrents, target_magnet_hash) ==
    {h \in original_torrents : Lower(h) # target_magnet_hash}

(* find_original_torrent: the torrents of the client with the hash *)
find_original_torrent(original_torrents, target_magnet_hash) ==
    {h \in original_torrents : Lower(h) = target_magnet_hash}

Call(name, arg, ok) == [name |-> name, arg |-> arg, ok |-> ok]

(* the client is called whatever TEST_MODE says *)
ClientCalledAlways(is_test_mode) == TRUE

(* lines 387 and 414: the client is called only outside test mode *)
ClientCalled(is_test_mode) == ~is_test_mode

(* One iteration of the loop over the magnets, lines 376-423.  loop holds the
   locals and what the run did so far: the torrents of the client, the calls
   made on the client, and per magnet the codes of its title, the branches
   taken and the calls made; remove_ok and add_ok are the answers of the
   client *)
MagnetStep(loop, i, magnet_info, needed_episodes, process_all_episodes, first_magnet_hash, is_test_mode, remove_ok, add_ok) ==
    LET episode_codes_found == extract_episode_codes(magnet_info.magnet_title)
        filter_by_codes == needed_episodes # {} /\ ~process_all_episodes
        disjoint == episode_codes_found \cap needed_episodes = {}
        first == i = 0 /\ first_magnet_hash # None /\ ~loop.original_torrent_removed
        wrong == first /\ filter_by_codes /\ disjoint
        keep == first /\ ~wrong
        original_torrent == find_original_torrent(loop.torrents, first_magnet_hash)
        called == ClientCalled(is_test_mode)
        removing == wrong /\ called /\ original_torrent # {}
        removed == removing /\ remove_ok
        skip == ~keep /\ ~process_all_episodes /\ filter_by_codes /\ disjoint
        adding == ~keep /\ ~skip /\ called
        hash == get_torrent_hash_from_magnet(magnet_info.magnet)
        calls ==
            (IF wrong /\ called THEN <<Call("get_torrents", "", TRUE)>> ELSE <<>>)
            \o (IF removing
                THEN <<Call("remove_torrent", The(original_torrent), remove_ok)>>
                ELSE <<>>)
            \o (IF adding
                THEN <<Call("add_magnet", magnet_info.magnet.btih, add_ok)>>
                ELSE <<>>)
    IN [original_torrent_removed |->
            loop.original_torrent_removed \/ removed \/ (wrong /\ ~called),
        added_count |->
            loop.added_count
                + (IF keep \/ (~keep /\ ~skip /\ (~called \/ add_ok))
                   THEN 1 ELSE 0),
        torrents |->
            ((IF removed THEN loop.torrents \ original_torrent ELSE loop.torrents)
                \cup (IF adding /\ add_ok /\ hash # None THEN {hash} ELSE {})),
        calls |-> loop.calls \o calls,
        log |->
            Append(loop.log,
                   [episode_codes_found |-> episode_codes_found,
                    branches |-> (IF wrong THEN <<"remove_original">> ELSE <<>>)
                                 \o (IF keep THEN <<"keep_original">>
                                     ELSE IF skip THEN <<"skip">>
                                     ELSE <<"add">>),
                    calls |-> calls])]

(* the locals at line 373, before the first magnet *)
NoLoop(torrents) ==
    [original_torrent_removed |-> FALSE, added_count |-> 0, torrents |-> torrents,
     calls |-> <<>>, log |-> <<>>]

(* the environment of a run and the thread it works on *)
Env(season_number, episode_numbers, episode_file_relative_path, release_title, TEST_MODE) ==
    [season_number |-> season_number, episode_numbers |-> episode_numbers,
     episode_file_relative_path |-> episode_file_relative_path,
     release_title |-> release_title, TEST_MODE |-> TEST_MODE]

MagnetInfo(magnet, magnet_title) == [magnet |-> magnet, magnet_title |-> magnet_title]

(* main() is about to start *)
NewRun(env, magnets) ==
    [pc |-> "start", env |-> env, magnets |-> magnets,
     needed_episodes |-> {}, process_all_episodes |-> FALSE, sources |-> <<>>,
     first_magnet_hash |-> None, i |-> 0, loop |-> NoLoop({}), steps |-> <<>>]

StartupStep(step, ok) == [step |-> step, ok |-> ok]

(* a startup that goes on when the torrent client refuses the login *)
StartupStepsNoClient(release_title, forum_ok, client_ok, thread_url, magnets) ==
    LET all == <<StartupStep("release_title", release_title # <<>>),
                 StartupStep("forum", forum_ok),
                 StartupStep("client", client_ok),
                 StartupStep("thread", thread_url # NoUrl),
                 StartupStep("magnets", magnets # <<>>)>>
        failed == {k \in 1..Len(all) : ~all[k].ok /\ all[k].step # "client"}
    IN IF failed = {} THEN all
       ELSE SubSeq(all, 1, CHOOSE k \in failed : \A j \in failed : k <= j)

(* lines 293-325: the steps main takes before it resolves the needed
   episodes, up to the first one that fails: the release title is there, the
   forum session is verified or the login succeeds, the torrent client
   accepts the login, the search finds a thread, the thread holds magnets *)
StartupSteps(release_title, forum_ok, client_ok, thread_url, magnets) ==
    LET all == <<StartupStep("release_title", release_title # <<>>),
                 StartupStep("forum", forum_ok),
                 StartupStep("client", client_ok),
                 StartupStep("thread", thread_url # NoUrl),
                 StartupStep("magnets", magnets # <<>>)>>
        failed == {k \in 1..Len(all) : ~all[k].ok}
    IN IF failed = {} THEN all
       ELSE SubSeq(all, 1, CHOOSE k \in failed : \A j \in failed : k <= j)

(* lines 277-325: the release title is required, the forum and the torrent
   client must be reachable, a thread must be found and hold magnets; the
   torrents are the ones the client holds *)
Start(forum_ok, client_ok, thread_url, torrents) ==
    /\ run.pc = "start"
    /\ \E steps \in {StartupSteps(run.env.release_title, forum_ok, client_ok,
                                   thread_url, run.magnets)} :
       \E last \in {steps[Len(steps)]} :
          run' =
            IF last.step = "magnets" /\ last.ok
            THEN [run EXCEPT !.pc = "resolve", !.loop = NoLoop(torrents),
                             !.steps = steps]
            ELSE IF last.step \in {"release_title", "thread"}
            THEN [run EXCEPT !.pc = "exit", !.steps = steps]
            ELSE [run EXCEPT !.pc = "return", !.steps = steps]
    /\ UNCHANGED <<thread_id_cache, cache_file, now, ticks, op, search, info>>

(* lines 327-374: the needed episodes, the hash of the first magnet *)
ResolveNeeded ==
    /\ run.pc = "resolve"
    /\ \E r \in {NeededEpisodes(run.env.season_number, run.env.episode_numbers,
                                run.env.episode_file_relative_path,
                                run.env.release_title)} :
          run' = [run EXCEPT
                    !.pc = "loop",
                    !.needed_episodes = r.needed_episodes,
                    !.process_all_episodes = r.process_all_episodes,
                    !.sources = r.sources,
                    !.first_magnet_hash =
                        get_torrent_hash_from_magnet(run.magnets[1].magnet)]
    /\ UNCHANGED <<thread_id_cache, cache_file, now, ticks, op, search, info>>

(* lines 376-423 for the magnet at position i *)
ProcessMagnet(remove_ok, add_ok) ==
    /\ run.pc = "loop"
    /\ run.i < Len(run.magnets)
    /\ \E after \in {MagnetStep(run.loop, run.i, run.magnets[run.i + 1],
                                run.needed_episodes, run.process_all_episodes,
                                run.first_magnet_hash, run.env.TEST_MODE,
                                remove_ok, add_ok)} :
          run' = [run EXCEPT !.loop = after, !.i = run.i + 1]
    /\ UNCHANGED <<thread_id_cache, cache_file, now, ticks, op, search, info>>

(* line 425: all magnets processed *)
Finish ==
    /\ run.pc = "loop"
    /\ run.i = Len(run.magnets)
    /\ run' = [run EXCEPT !.pc = "done"]
    /\ UNCHANGED <<thread_id_cache, cache_file, now, ticks, op, search, info>>

(* most magnets in a thread *)
MaxMagnets == 2

SeasonNumbers == {NoNumber, <<2>>, <<LetterX>>}

(* "", "5,6", "5,x" and "," *)
EpisodeNumbers ==
    {NoEpisodes, <<<<5>>, <<6>>>>, <<<<5>>, <<LetterX>>>>, <<NoNumber, NoNumber>>}

EpisodePaths ==
    {<<>>, <<Plain>>, <<Plain, SxEyEz(<<0, 2>>, <<0, 5>>, <<0, 7>>)>>,
     <<SxEyz(<<0, 2>>, <<0, 5>>, <<0, 7>>)>>}

ReleaseTitles ==
    {<<>>, <<Word("Show"), Stagione(<<2>>)>>,
     <<Word("Show"), Dash, SE(<<0, 2>>, <<0, 5>>)>>}

MagnetTitles ==
    {<<Plain, SxEy(<<0, 2>>, <<0, 5>>)>>, <<Plain, SxEy(<<0, 2>>, <<0, 9>>)>>,
     <<SxEyEz(<<0, 2>>, <<0, 1>>, <<0, 3>>)>>,
     <<Plain, Lowered(SxEy(<<0, 2>>, <<0, 5>>))>>}

FirstMagnets == {Magnet("AA", "hex40"), Magnet("AA", "base32")}

OtherMagnets == {Magnet("BB", "hex40")}

(* the magnets of a thread: the first one is the release Sonarr grabbed *)
RECURSIVE Threads(_)
Threads(n) ==
    IF n = 0 THEN {<<>>}
    ELSE IF n = 1
    THEN {<<MagnetInfo(m, t)>> : m \in FirstMagnets, t \in MagnetTitles}
    ELSE {Append(th, MagnetInfo(m, t)) :
             th \in Threads(n - 1), m \in OtherMagnets, t \in MagnetTitles}

(* the torrents the client holds when the run starts, by hash *)
ClientTorrents == {{}, {"aa"}, {"aa", "cc"}}

InitMain ==
    /\ thread_id_cache = <<>>
    /\ cache_file = FileOf(<<>>)
    /\ now = TTL_DAYS
    /\ ticks = 0
    /\ op = NoOp
    /\ search = NoSearch
    /\ info = NoInfo
    /\ run \in {NewRun(Env(s, e, p, t, test), magnets) :
                   s \in SeasonNumbers, e \in EpisodeNumbers, p \in EpisodePaths,
                   t \in ReleaseTitles, test \in BOOLEAN,
                   magnets \in UNION {Threads(n) : n \in 0..MaxMagnets}}

NextMain ==
    \/ \E forum_ok \in BOOLEAN, client_ok \in BOOLEAN,
          thread_url \in {NoUrl, ThreadUrl("t2")}, torrents \in ClientTorrents :
            Start(forum_ok, client_ok, thread_url, torrents)
    \/ ResolveNeeded
    \/ \E remove_ok \in BOOLEAN, add_ok \in BOOLEAN : ProcessMagnet(remove_ok, add_ok)
    \/ Finish

SpecMain == InitMain /\ [][NextMain]_vars

----------------------------------------------------------------------------
(* extract_episode_info on the text around a magnet link *)

(* largest season and episode number of a code given as text *)
MaxNumber == 99

(* the full codes S{ss}E{ee} as texts *)
CodeTexts ==
    {<<SxEy(Format02d(season), Format02d(ep))>> :
        season \in 0..MaxNumber, ep \in 0..MaxNumber}

OtherTexts ==
    {<<Plain>>, <<SxEy(<<5>>, <<4>>)>>, <<Plain, NxM(<<1>>, <<0, 5>>)>>,
     <<StagioneN(<<2>>)>>, <<Plain, SeasonN(<<2>>)>>, <<EpN(<<7>>)>>,
     <<PlainS(<<1, 3>>), EpN(<<7>>)>>, <<EpN(<<7>>), StagioneN(<<2>>)>>,
     <<SeasonN(<<5>>), SxEy(<<5>>, <<4>>)>>, <<NthSeason(<<3>>), NxM(<<3>>, <<1, 2>>)>>,
     <<SeasonNEpM(<<2>>, <<5>>)>>, <<StagioneNEpM(<<4>>, <<8>>)>>,
     <<NthSeasonEpisodeM(<<5>>, <<3>>)>>, <<Plain, NthSeason(<<5>>)>>,
     <<EpisodioN(<<1, 5>>)>>, <<EpisodeN(<<7>>), PlainS(<<2>>)>>,
     <<EpisodeN(<<7>>), Plain>>, <<EpisodioN(<<7>>), SeasonN(<<2>>)>>}

(* lines 1019-1053 for an element that holds nothing but a text: the element
   and its parent, the document, give the same text; a text of the page may
   come before it *)
ContextTexts(text) == {<<text, text>>, <<<<Plain>>, text>>}

(* a text followed by the text of another element, which holds a code *)
ContextTextsBefore(text) == {<<text, <<SxEy(<<9>>, <<9>>)>>>>}

InitInfo ==
    /\ thread_id_cache = <<>>
    /\ cache_file = FileOf(<<>>)
    /\ now = TTL_DAYS
    /\ ticks = 0
    /\ op = NoOp
    /\ search = NoSearch
    /\ run = NoRun
    /\ info \in {[call |-> "none", context_texts |-> c, ret |-> None] :
                    c \in UNION ({ContextTexts(t) : t \in CodeTexts \cup OtherTexts}
                                   \cup {ContextTextsBefore(t) : t \in OtherTexts})}

ExtractInfo ==
    /\ info.call = "none"
    /\ info' = [info EXCEPT !.call = "extract_episode_info",
                            !.ret = extract_episode_info(info.context_texts)]
    /\ UNCHANGED <<thread_id_cache, cache_file, now, ticks, op, search, run>>

NextInfo == ExtractInfo

SpecInfo == InitInfo /\ [][NextInfo]_vars

----------------------------------------------------------------------------
(* extract_episode_info on an element of a page.  The page is a tree of
   nodes 1..n, node 1 the document; parent[k] is the parent of node k, 0 for
   the document, whose .parent is None.  The children of a node stand in the
   order of their numbers. *)

(* largest number of nodes of a page *)
MaxNodes == 7

RECURSIVE Ascending(_)
Ascending(S) ==
    IF S = {} THEN <<>>
    ELSE LET m == CHOOSE x \in S : \A y \in S : x <= y
         IN <<m>> \o Ascending(S \ {m})

(* elem.find_all(recursive=False) *)
find_all(parent, elem) == Ascending({k \in 1..Len(parent) : parent[k] = elem})

(* lines 1021-1029: current = current.parent, at most levels times *)
RECURSIVE Parents(_, _, _)
Parents(parent, current, levels) ==
    IF levels = 0 \/ parent[current] = 0 THEN <<>>
    ELSE <<parent[current]>> \o Parents(parent, parent[current], levels - 1)

(* lines 1032-1035: for elem in context_elements: context_elements.extend(
   elem.find_all(recursive=False)).  The loop runs over the list it extends,
   so it goes on over the elements it has appended, until the end of the list
   is reached; i is the position of the loop *)
RECURSIVE ExtendWithSiblings(_, _, _)
ExtendWithSiblings(parent, context_elements, i) ==
    IF i > Len(context_elements) THEN context_elements
    ELSE ExtendWithSiblings(parent,
             context_elements \o find_all(parent, context_elements[i]), i + 1)

(* the list as it is, duplicates kept *)
unique_contextKeepAll(context_elements) == context_elements

(* lines 1044-1050: the first occurrence of each element, in order *)
unique_context(context_elements) ==
    LET keep == Ascending({i \in 1..Len(context_elements) :
                    \A j \in 1..(i - 1) : context_elements[j] # context_elements[i]})
    IN [k \in 1..Len(keep) |-> context_elements[keep[k]]]

(* lines 1020-1050 *)
ContextElements(parent, magnet_element) ==
    unique_context(ExtendWithSiblings(parent, Parents(parent, magnet_element, 5), 1)
                       \o <<magnet_element>> \o find_all(parent, magnet_element))

(* elem.get_text(): the strings of the element and of all that is below it;
   own[k] is the text that node k holds itself *)
RECURSIVE get_text(_, _, _)
RECURSIVE TextsOf(_, _, _)
get_text(parent, own, elem) == own[elem] \o TextsOf(parent, own, find_all(parent, elem))

TextsOf(parent, own, elems) ==
    IF elems = <<>> THEN <<>>
    ELSE get_text(parent, own, elems[1]) \o TextsOf(parent, own, Tail(elems))

(* the node marked holds the code S05E04, the other nodes hold no text *)
OwnTexts(n, marked) ==
    [k \in 1..n |-> IF k = marked THEN <<SxEy(<<0, 5>>, <<0, 4>>)>> ELSE <<>>]

(* the pages of n nodes: each node after the document hangs under a node
   before it *)
RECURSIVE Pages(_)
Pages(n) ==
    IF n = 1 THEN {<<0>>}
    ELSE {Append(parent, k) : parent \in Pages(n - 1), k \in 1..(n - 1)}

(* the magnet element is any node but the document; the code is held by the
   document, by the magnet element, or by no node *)
InitPage ==
    /\ thread_id_cache = <<>>
    /\ cache_file = FileOf(<<>>)
    /\ now = TTL_DAYS
    /\ ticks = 0
    /\ op = NoOp
    /\ search = NoSearch
    /\ run = NoRun
    /\ \E n \in 2..MaxNodes :
        \E parent \in Pages(n), magnet_element \in 2..n :
           \E marked \in {0, 1, magnet_element} :
              info = [call |-> "none", parent |-> parent,
                      magnet_element |-> magnet_element,
                      own |-> OwnTexts(n, marked),
                      context_elements |-> <<>>, ret |-> None]

ExtractInfoOfElement ==
    /\ info.call = "none"
    /\ \E context_elements \in {ContextElements(info.parent, info.magnet_element)} :
          info' = [info EXCEPT
                      !.call = "extract_episode_info",
                      !.context_elements = context_elements,
                      !.ret = extract_episode_info(
                                 [k \in 1..Len(context_elements) |->
                                     get_text(info.parent, info.own, context_elements[k])])]
    /\ UNCHANGED <<thread_id_cache, cache_file, now, ticks, op, search, run>>

NextPage == ExtractInfoOfElement

SpecPage == InitPage /\ [][NextPage]_vars

----------------------------------------------------------------------------
(* extract_magnets_from_thread and _extract_magnets_from_page: the requests
   they send and the pauses between them.  run.log holds, in order, the calls
   of the page functions, the GET requests with their outcome, the sleeps and
   the values returned.  A request ends in one of three ways:
     "ok"             a page came back; it holds the magnets listed
     "request_error"  requests.exceptions.RequestException (HTTP status,
                      timeout, connection)
     "error"          any other exception                                    *)

(* largest max_retries of a direct call of _extract_magnets_from_page *)
MaxRetries == 3

(* the default value of the parameter max_retries *)
max_retries_default == 3

Step(ev, fn, url, outcome, magnets, seconds) ==
    [ev |-> ev, fn |-> fn, url |-> url, outcome |-> outcome, magnets |-> magnets,
     seconds |-> seconds]

Called(fn, url) == Step("call", fn, url, "", <<>>, 0)

Requested(fn, url, outcome, magnets) == Step("get", fn, url, outcome, magnets, 0)

Slept(seconds) == Step("sleep", "_extract_magnets_from_page", "", "", <<>>, seconds)

Returned(fn, magnets) == Step("return", fn, "", "", magnets, 0)

(* the same test when every failed request is taken for the last one *)
LastAttemptAlways(attempt, max_retries) == TRUE

(* line 1238: if attempt == max_retries - 1 *)
LastAttempt(attempt, max_retries) == attempt = max_retries - 1

(* the same test when the post URL is never looked at *)
has_forum_post_urlNever(forum_post_url) == FALSE

(* line 1154: has_forum_post_url = forum_post_url is not None *)
has_forum_post_url(forum_post_url) == forum_post_url # None

(* one pass of the loop of _extract_magnets_from_page, lines 1208-1249: what
   the function does after the request: "return" with a value, or "sleep" *)
PageAttempt(attempt, max_retries, outcome, magnets) ==
    IF outcome = "ok" THEN [then |-> "return", magnets |-> magnets]
    ELSE IF outcome = "request_error"
    THEN IF LastAttempt(attempt, max_retries)
         THEN [then |-> "return", magnets |-> <<>>]
         ELSE [then |-> "sleep", magnets |-> <<>>]
    ELSE [then |-> "return", magnets |-> <<>>]

(* extract_magnets_from_thread after a call of _extract_magnets_from_page has
   returned magnets, lines 1161-1192: the next position and what is logged *)
AfterPage(r, magnets) ==
    IF r.phase = "primary" /\ magnets = <<>> /\ has_forum_post_url(r.forum_post_url)
    THEN [r EXCEPT !.pc = "get", !.phase = "fallback", !.url = r.forum_post_url,
                   !.attempt = 0,
                   !.log = @ \o <<Called("_extract_magnets_from_page", r.forum_post_url)>>]
    ELSE IF r.phase = "primary" /\ magnets = <<>>
    THEN [r EXCEPT !.pc = "legacy", !.phase = "legacy",
                   !.log = @ \o <<Called("_extract_magnets_legacy_mode", r.thread_url)>>]
    ELSE [r EXCEPT !.pc = "returned", !.ret = magnets,
                   !.log = @ \o <<Returned("extract_magnets_from_thread", magnets)>>]

NewCall(call, thread_url, forum_post_url, max_retries) ==
    [pc |-> "start", call |-> call, thread_url |-> thread_url,
     forum_post_url |-> forum_post_url, max_retries |-> max_retries,
     phase |-> "none", url |-> thread_url, attempt |-> 0, log |-> <<>>, ret |-> None]

(* the magnets a page may hold *)
PageMagnets ==
    {<<>>, <<Magnet("AA", "hex40")>>, <<Magnet("AA", "hex40"), Magnet("BB", "hex40")>>}

InitMagnets ==
    /\ thread_id_cache = <<>>
    /\ cache_file = FileOf(<<>>)
    /\ now = TTL_DAYS
    /\ ticks = 0
    /\ op = NoOp
    /\ search = NoSearch
    /\ info = NoInfo
    /\ run \in {NewCall("_extract_magnets_from_page", "thread", None, n) :
                   n \in 1..MaxRetries}
               \cup {NewCall("extract_magnets_from_thread", "thread", post,
                             max_retries_default) : post \in {None, "post"}}

(* the call begins: line 1208, or lines 1150-1161 up to the first call of
   _extract_magnets_from_page *)
Enter ==
    /\ run.pc = "start"
    /\ run' = [run EXCEPT
                  !.pc = "get",
                  !.phase = IF run.call = "extract_magnets_from_thread"
                            THEN "primary" ELSE "none",
                  !.log = <<Called("_extract_magnets_from_page", run.thread_url)>>]
    /\ UNCHANGED <<thread_id_cache, cache_file, now, ticks, op, search, info>>

(* one request of _extract_magnets_from_page and what follows it up to the
   next request or sleep *)
GetPage(outcome, magnets) ==
    /\ run.pc = "get"
    /\ run.attempt < run.max_retries
    /\ (outcome = "ok" \/ magnets = <<>>)
    /\ \E pass \in {PageAttempt(run.attempt, run.max_retries, outcome, magnets)} :
       \E got \in {[run EXCEPT !.log = @ \o <<Requested("_extract_magnets_from_page",
                                                        run.url, outcome, magnets)>>]} :
       \E back \in {[got EXCEPT !.log = @ \o <<Returned("_extract_magnets_from_page",
                                                        pass.magnets)>>]} :
          run' = IF pass.then = "sleep" THEN [got EXCEPT !.pc = "sleep"]
                 ELSE IF run.call = "_extract_magnets_from_page"
                 THEN [back EXCEPT !.pc = "returned", !.ret = pass.magnets]
                 ELSE AfterPage(back, pass.magnets)
    /\ UNCHANGED <<thread_id_cache, cache_file, now, ticks, op, search, info>>

(* lines 1242-1243: time.sleep(2 ** attempt), then the next pass of the loop *)
SleepPage ==
    /\ run.pc = "sleep"
    /\ run' = [run EXCEPT !.pc = "get", !.attempt = @ + 1,
                          !.log = @ \o <<Slept(2 ^ run.attempt)>>]
    /\ UNCHANGED <<thread_id_cache, cache_file, now, ticks, op, search, info>>

(* _extract_magnets_legacy_mode, lines 1273-1351: one request, no retry; any
   exception gives [] *)
GetLegacy(outcome, magnets) ==
    /\ run.pc = "legacy"
    /\ (outcome = "ok" \/ magnets = <<>>)
    /\ \E found \in {IF outcome = "ok" THEN magnets ELSE <<>>} :
          run' = [run EXCEPT
                     !.pc = "returned", !.ret = found,
                     !.log = @ \o <<Requested("_extract_magnets_legacy_mode",
                                              run.thread_url, outcome, magnets),
                                    Returned("_extract_magnets_legacy_mode", found),
                                    Returned("extract_magnets_from_thread", found)>>]
    /\ UNCHANGED <<thread_id_cache, cache_file, now, ticks, op, search, info>>

Outcomes == {"ok", "request_error", "error"}

NextMagnets ==
    \/ Enter
    \/ \E outcome \in Outcomes, magnets \in PageMagnets : GetPage(outcome, magnets)
    \/ SleepPage
    \/ \E outcome \in Outcomes, magnets \in PageMagnets : GetLegacy(outcome, magnets)

SpecMagnets == InitMagnets /\ [][NextMagnets]_vars

----------------------------------------------------------------------------
(* src/api/sonarr_api.py: normalize_title and the requests of SonarrAPI.
   A title is a sequence of characters: the letters "a" and "A", the space and
   the hyphen, which stands for the characters that are neither word
   characters nor whitespace. *)

(* longest title given to normalize_title *)
MaxTitleLen == 5

(* largest number of series and of episodes in an answer of Sonarr *)
MaxListed == 2

TitleChars == {"a", "A", " ", "-"}

IsSpace(c) == c = " "

IsWordChar(c) == c \in {"a", "A"}

(* title.strip() *)
RECURSIVE Strip(_)
Strip(cs) ==
    IF cs = <<>> THEN <<>>
    ELSE IF IsSpace(cs[1]) THEN Strip(Tail(cs))
    ELSE IF IsSpace(cs[Len(cs)]) THEN Strip(SubSeq(cs, 1, Len(cs) - 1))
    ELSE cs

(* re.sub(r'\s+', ' ', ...): each run of whitespace becomes one space *)
Collapse(cs) ==
    SelectSeq([i \in 1..Len(cs) |->
                  IF IsSpace(cs[i]) /\ i > 1 /\ IsSpace(cs[i - 1]) THEN "" ELSE cs[i]],
              LAMBDA c : c # "")

(* re.sub(r'[^\w\s]', '', ...) *)
RemoveSpecial(cs) == SelectSeq(cs, LAMBDA c : IsWordChar(c) \/ IsSpace(c))

(* lines 14-22: a falsy title is returned as it is; else strip, collapse the
   whitespace, and then remove the special characters *)
normalize_title(title) ==
    IF title = <<>> THEN title ELSE RemoveSpecial(Collapse(Strip(title)))

(* str.lower() *)
LowerCase(cs) == [i \in 1..Len(cs) |-> IF cs[i] = "A" THEN "a" ELSE cs[i]]

(* a series of Sonarr, and None *)
Series(id, title) == [id |-> id, title |-> title]

NoSeries == Series(0, <<>>)

(* lines 85-92: the first series of the answer whose normalized title is the
   normalized title, letter case apart; None when there is none *)
MatchingSeries(series_list, normalized_title) ==
    LET at == FirstIndex(series_list,
                  LAMBDA series : LowerCase(normalize_title(series.title))
                                     = LowerCase(normalized_title))
    IN IF at = 0 THEN NoSeries ELSE series_list[at]

Episode(seasonNumber, episodeNumber, hasFile) ==
    [seasonNumber |-> seasonNumber, episodeNumber |-> episodeNumber, hasFile |-> hasFile]

(* the same test when every episode counts *)
has_fileAlways(episode) == TRUE

(* line 169: has_file = episode.get('hasFile', False) *)
has_file(episode) == episode.hasFile

(* lines 168-174: the codes of the episodes that have a file *)
ExistingCodes(episodes) ==
    {Code(episodes[i].seasonNumber, episodes[i].episodeNumber) :
        i \in {j \in 1..Len(episodes) : has_file(episodes[j])}}

(* the same test when every failed request is taken for the last one *)
LastRequestAlways(attempt) == TRUE

(* lines 66 and 94: if attempt == 2 *)
LastRequest(attempt) == attempt = 2

(* an entry of run.log: a request of fn with its outcome and, when a page
   came back, the list of the answer; a sleep; the value fn returned *)
ApiStep(ev, fn, outcome, value) == [ev |-> ev, fn |-> fn, outcome |-> outcome, value |-> value]

(* what get_series_by_title and get_series_episodes return for a given answer
   of Sonarr, and what they return when every request failed *)
ValueOf(fn, normalized_title, answer) ==
    IF fn = "get_series_by_title" THEN MatchingSeries(answer, normalized_title)
    ELSE answer

GivenUp(fn) == IF fn = "get_series_by_title" THEN NoSeries ELSE <<>>

(* fn has returned value: the direct call is over; get_existing_episodes goes
   on with the episodes of the series found, or returns its set of codes *)
AfterApi(r, fn, value) ==
    LET back == [r EXCEPT !.log = @ \o <<ApiStep("return", fn, "", value)>>]
    IN IF r.call # "get_existing_episodes"
       THEN [back EXCEPT !.pc = "returned", !.ret = value]
       ELSE IF fn = "get_series_by_title"
       THEN IF value = NoSeries
            THEN [back EXCEPT !.pc = "returned", !.ret = {}]
            ELSE [back EXCEPT !.pc = "get", !.fn = "get_series_episodes", !.attempt = 0]
       ELSE [back EXCEPT !.pc = "returned", !.ret = ExistingCodes(value)]

(* fn has raised: out of the direct call; get_existing_episodes catches it,
   lines 182-183, and returns the set it has, still empty *)
AfterRaise(r) ==
    IF r.call # "get_existing_episodes" THEN [r EXCEPT !.pc = "raised"]
    ELSE [r EXCEPT !.pc = "returned", !.ret = {}]

NewApiCall(call, title) ==
    [pc |-> "start", call |-> call, title |-> title, fn |-> call, attempt |-> 0,
     log |-> <<>>, ret |-> None]

RECURSIVE TitlesUpTo(_)
TitlesUpTo(n) ==
    IF n = 0 THEN {<<>>}
    ELSE LET shorter == TitlesUpTo(n - 1)
         IN shorter \cup {Append(cs, c) : cs \in {s \in shorter : Len(s) = n - 1},
                                           c \in TitleChars}

(* "a a", "A-a", "a - a" and a title Sonarr does not hold *)
AskedTitles ==
    {<<"a", " ", "a">>, <<"A", "-", "a">>, <<"a", " ", "-", " ", "a">>, <<"a">>}

(* "A a", "aa", "a - a" *)
SonarrTitles ==
    {<<"A", " ", "a">>, <<"a", "a">>, <<"a", " ", "-", " ", "a">>}

RECURSIVE ListsUpTo(_, _)
ListsUpTo(S, n) ==
    IF n = 0 THEN {<<>>}
    ELSE LET shorter == ListsUpTo(S, n - 1)
         IN shorter \cup {Append(l, x) : l \in {s \in shorter : Len(s) = n - 1}, x \in S}

(* the answers of GET /api/v3/series: the series are numbered as listed *)
SeriesLists ==
    {[k \in 1..Len(l) |-> Series(k, l[k])] : l \in ListsUpTo(SonarrTitles, MaxListed)}

(* the answers of GET /api/v3/episode *)
EpisodeLists ==
    ListsUpTo({Episode(1, 1, TRUE), Episode(1, 2, FALSE), Episode(2, 10, TRUE)}, MaxListed)

Answers(fn) == IF fn = "get_series_by_title" THEN SeriesLists ELSE EpisodeLists

InitSonarr ==
    /\ thread_id_cache = <<>>
    /\ cache_file = FileOf(<<>>)
    /\ now = TTL_DAYS
    /\ ticks = 0
    /\ op = NoOp
    /\ search = NoSearch
    /\ info = NoInfo
    /\ run \in {NewApiCall("normalize_title", title) : title \in TitlesUpTo(MaxTitleLen)}
               \cup {NewApiCall(call, title) :
                        call \in {"get_series_by_title", "get_existing_episodes"},
                        title \in AskedTitles}
               \cup {NewApiCall("get_series_episodes", <<>>)}

(* normalize_title(title) *)
NormalizeTitle ==
    /\ run.pc = "start" /\ run.call = "normalize_title"
    /\ run' = [run EXCEPT !.pc = "returned", !.ret = normalize_title(run.title)]
    /\ UNCHANGED <<thread_id_cache, cache_file, now, ticks, op, search, info>>

(* the call begins: lines 55-56, 75-76, 160-161 *)
EnterApi ==
    /\ run.pc = "start" /\ run.call # "normalize_title"
    /\ run' = [run EXCEPT
                  !.pc = "get",
                  !.fn = IF run.call = "get_existing_episodes"
                         THEN "get_series_by_title" ELSE run.call]
    /\ UNCHANGED <<thread_id_cache, cache_file, now, ticks, op, search, info>>

(* one pass of the loop `for attempt in range(3)` of get_series_episodes,
   lines 57-70, or of get_series_by_title, lines 77-98, and what follows it
   up to the next request or sleep *)
GetApi(outcome, answer) ==
    /\ run.pc = "get"
    /\ answer \in Answers(run.fn)
    /\ (outcome = "ok" \/ answer = <<>>)
    /\ \E got \in {[run EXCEPT !.log = @ \o <<ApiStep("get", run.fn, outcome, answer)>>]} :
          run' = IF outcome = "ok"
                 THEN AfterApi(got, run.fn,
                               ValueOf(run.fn, normalize_title(run.title), answer))
                 ELSE IF outcome = "request_error"
                 THEN IF LastRequest(run.attempt)
                      THEN AfterApi(got, run.fn, GivenUp(run.fn))
                      ELSE [got EXCEPT !.pc = "sleep"]
                 ELSE AfterRaise(got)
    /\ UNCHANGED <<thread_id_cache, cache_file, now, ticks, op, search, info>>

(* lines 70 and 98: time.sleep(1 * (2 ** attempt)), then the next pass *)
SleepApi ==
    /\ run.pc = "sleep"
    /\ run' = [run EXCEPT !.pc = "get", !.attempt = @ + 1,
                          !.log = @ \o <<ApiStep("sleep", run.fn, "", 2 ^ run.attempt)>>]
    /\ UNCHANGED <<thread_id_cache, cache_file, now, ticks, op, search, info>>

NextSonarr ==
    \/ NormalizeTitle
    \/ EnterApi
    \/ \E outcome \in Outcomes, answer \in SeriesLists \cup EpisodeLists :
          GetApi(outcome, answer)
    \/ SleepApi

SpecSonarr == InitSonarr /\ [][NextSonarr]_vars

----------------------------------------------------------------------------
(* MIRCrewExtractor.login(retries, initial_wait): the check of the index page,
   then up to retries attempts, each a GET of the login form and a POST of the
   credentials, with a sleep before every attempt but the first.  The value
   returned is written as Python prints it: "True", "False" or the sid *)

(* most attempts of one login call *)
MaxLoginRetries == 4

(* the default of the parameter initial_wait *)
initial_wait_default == 5

LoginStep(ev, outcome, seconds) == Step(ev, "login", "", outcome, <<>>, seconds)

(* the same time without the cap *)
wait_timeUncapped(initial_wait, attempt) == initial_wait * (2 ^ (attempt - 1))

(* line 343: wait_time = min(initial_wait * (2 ** (attempt - 1)), 300); the
   sleep lasts wait_time * jitter, jitter between 0.5 and 1.5 *)
wait_time(initial_wait, attempt) ==
    IF initial_wait * (2 ^ (attempt - 1)) < 300
    THEN initial_wait * (2 ^ (attempt - 1)) ELSE 300

(* the value of the cookie whose name contains sid, None without such a cookie *)
SidCookies == {None, "", "abc"}

(* lines 305-308: the value of the first sid cookie as it is, True without one *)
SidOfSession(sid) == IF sid = None THEN "True" ELSE sid

(* line 433: return sid or True *)
SidOrTrue(sid) == IF sid = None \/ sid = "" THEN "True" ELSE sid

(* an attempt has failed, lines 358-361, 367-369, 403-406, 410-412, 443-445,
   449-451: False after the last one, else the next pass of the loop *)
AfterFailure(r) ==
    IF r.attempt = r.retries - 1
    THEN [r EXCEPT !.pc = "returned", !.ret = "False"]
    ELSE [r EXCEPT !.pc = "wait", !.attempt = @ + 1]

NewLogin(retries, initial_wait) ==
    [pc |-> "start", call |-> "login", retries |-> retries,
     initial_wait |-> initial_wait, attempt |-> 0, log |-> <<>>, ret |-> None]

InitLogin ==
    /\ thread_id_cache = <<>>
    /\ cache_file = FileOf(<<>>)
    /\ now = TTL_DAYS
    /\ ticks = 0
    /\ op = NoOp
    /\ search = NoSearch
    /\ info = NoInfo
    /\ run \in {NewLogin(n, w) : n \in 0..MaxLoginRetries,
                                 w \in {initial_wait_default, 100, 400}}

(* lines 302-308 and the entry of the loop: is_already_logged_in answers
   already; with no pass of the loop the function returns False (line 453) *)
EnterLogin(already, sid) ==
    /\ run.pc = "start"
    /\ run.call = "login"
    /\ \E asked \in {[run EXCEPT !.log = <<LoginStep("index",
                           IF already THEN "logged_in" ELSE "not_logged_in", 0)>>]} :
          run' = IF already
                 THEN [asked EXCEPT !.pc = "returned", !.ret = SidOfSession(sid)]
                 ELSE IF run.retries = 0
                 THEN [asked EXCEPT !.pc = "returned", !.ret = "False"]
                 ELSE [asked EXCEPT !.pc = "form"]
    /\ UNCHANGED <<thread_id_cache, cache_file, now, ticks, op, search, info>>

(* lines 342-347: the sleep before a further attempt *)
WaitLogin ==
    /\ run.pc = "wait"
    /\ run' = [run EXCEPT
                  !.pc = "form",
                  !.log = @ \o <<LoginStep("sleep", "",
                                     wait_time(run.initial_wait, run.attempt))>>]
    /\ UNCHANGED <<thread_id_cache, cache_file, now, ticks, op, search, info>>

FormOutcomes == {"ok", "request_error", "no_form", "error"}

(* lines 349-369: the GET of the login form *)
GetForm(outcome) ==
    /\ run.pc = "form"
    /\ \E got \in {[run EXCEPT !.log = @ \o <<LoginStep("get", outcome, 0)>>]} :
          run' = IF outcome = "ok" THEN [got EXCEPT !.pc = "post"]
                 ELSE AfterFailure(got)
    /\ UNCHANGED <<thread_id_cache, cache_file, now, ticks, op, search, info>>

PostOutcomes == {"logged_in", "request_error", "bad_status", "not_logged_in", "error"}

(* lines 371-451: the POST of the credentials and the check of the page *)
PostLogin(outcome, sid) ==
    /\ run.pc = "post"
    /\ (outcome = "logged_in" \/ sid = None)
    /\ \E sent \in {[run EXCEPT !.log = @ \o <<LoginStep("post", outcome, 0)>>]} :
          run' = IF outcome = "logged_in"
                 THEN [sent EXCEPT !.pc = "returned", !.ret = SidOrTrue(sid)]
                 ELSE AfterFailure(sent)
    /\ UNCHANGED <<thread_id_cache, cache_file, now, ticks, op, search, info>>

NextLogin ==
    \/ \E already \in BOOLEAN, sid \in SidCookies : EnterLogin(already, sid)
    \/ WaitLogin
    \/ \E outcome \in FormOutcomes : GetForm(outcome)
    \/ \E outcome \in PostOutcomes, sid \in SidCookies : PostLogin(outcome, sid)

SpecLogin == InitLogin /\ [][NextLogin]_vars

----------------------------------------------------------------------------
(* Properties of the cache *)

(* age of an entry in days; an entry is unexpired up to TTL_DAYS *)
Age(e) == now - e.timestamp

Unexpired(e) == e.timestamp >= 0 /\ Age(e) <= TTL_DAYS

FillKey(k) == [series |-> "F", tag |-> Format02d(k)]

FillDone == op.name = "put" /\ FillDay = cache_max_size + 1

(* C1 as stated: after 101 distinct keys were put into an empty cache, none
   expired, the cache holds exactly 80 entries, those with the 80 most recent
   timestamps *)
C1_Exactly80 ==
    FillDone =>
        /\ Len(thread_id_cache) = 80
        /\ Keys(thread_id_cache) = {FillKey(k) : k \in 22..101}

(* C1 amended: after 101 distinct keys were put into an empty cache, one per
   day, the cache holds exactly 81 entries: the key put last and the 80 most
   recent of the 100 put before it, each with the timestamp of its put *)
C1_Exactly81 ==
    FillDone =>
        /\ Len(thread_id_cache) = 81
        /\ Entries(thread_id_cache) =
              {[key |-> FillKey(k), thread_id |-> "t1", timestamp |-> TTL_DAYS + k - 1] :
                  k \in 21..101}

C1_Witness ==
    /\ FillDone
    /\ Cardinality(op.evicted) = 20
    /\ op.purged = {}
    /\ op.key = FillKey(101)

(* the last step was a get, or a put, that passed its argument check *)
GetStep == op'.name = "get" /\ op'.key # NoKey

PutStep == op'.name = "put" /\ op'.key # NoKey

(* C2: a get on an entry more than 180 days old returns None and deletes the
   entry, so that the same get repeated at once returns None again; a get on
   an entry aged 180 days or less returns its thread id and keeps the cache *)
C2_GetExpiry ==
    [][(GetStep /\ HasKey(thread_id_cache, op'.key))
          => LET e == Lookup(thread_id_cache, op'.key)
             IN IF Age(e) > 180
                THEN /\ op'.ret = None
                     /\ ~HasKey(thread_id_cache', e.key)
                     /\ \A s \in SeriesTitles, n \in Seasons :
                            (s # "" /\ Truthy(n) /\ CacheKey(s, n) = e.key)
                            => GetResult(thread_id_cache', s, n, now') = None
                ELSE /\ op'.ret = e.thread_id
                     /\ thread_id_cache' = thread_id_cache]_vars

C2_Witness ==
    /\ op.name = "get"
    /\ op.ret = None
    /\ op.purged = {op.key}
    /\ ~HasKey(thread_id_cache, op.key)

(* C3: the cache never holds more than 100 entries, and a put that finds 100
   or more unexpired entries leaves at most 81 *)
C3_SizeBound ==
    /\ [](Len(thread_id_cache) <= 100)
    /\ [][(/\ PutStep
           /\ Cardinality({e \in Entries(thread_id_cache) : Unexpired(e)}) >= 100)
          => Len(thread_id_cache') <= 81]_vars

C3_Witness ==
    /\ op.name = "put"
    /\ op.evicted # {}
    /\ Len(thread_id_cache) = 81

(* the same season written as an integer or as a digit string with or without
   leading zeros *)
SameSeason(n, m) ==
    \/ n = m
    \/ IsNumeric(n) /\ IsNumeric(m) /\ IntValue(n) = IntValue(m)

(* "{series} S{season:02}" for a season number below 100 *)
TwoDigitKey(s, v) == [series |-> s, tag |-> <<v \div 10, v % 10>>]

(* C4: after put(series, season, id) the entry is stored under
   "{series} S{season:02}", and a get for the same series and season, written
   as 1, "1" or "01", returns id at once and up to 180 days later, whatever
   the fill level of the cache at the put *)
C4_RoundTrip ==
    [][\A n \in FullSeasons :
          (PutStep /\ op'.key = CacheKey("A", n))
          => /\ IsNumeric(n) =>
                    TwoDigitKey("A", IntValue(n)) \in Keys(thread_id_cache')
             /\ \A m \in FullSeasons : SameSeason(n, m) =>
                    /\ GetResult(thread_id_cache', "A", m, now') = op'.arg
                    /\ GetResult(thread_id_cache', "A", m, now' + 180) = op'.arg]_vars

C4_Witness ==
    /\ op.name = "get"
    /\ op.ret \in FullThreadIds
    /\ op.key = TwoDigitKey("A", 1)
    /\ Age(Lookup(thread_id_cache, op.key)) = 180
    /\ Len(thread_id_cache) = 100

(* C5: a put first purges every expired entry; only if 100 or more entries
   remain it keeps the 80 newest of them; then it stores the new entry with
   the current timestamp.  So no unexpired entry is discarded while an older
   one is kept, none is discarded when fewer than 100 are unexpired, and the
   entry put is present afterwards *)
C5_PutOrder ==
    [][PutStep
          => LET key == op'.key
                 old == Entries(thread_id_cache)
                 new == Entries(thread_id_cache')
                 live == {e \in old : Unexpired(e)}
                 lost == {e \in live : e.key # key /\ e.key \notin Keys(thread_id_cache')}
             IN /\ \A e \in old \ live : e \notin new
                /\ \A e \in live : e.key # key => (e \in new \/ e \in lost)
                /\ Cardinality(live) < 100 => lost = {}
                /\ Cardinality(live) >= 100 =>
                       Cardinality({e \in live : e \in new \/ e.key = key}) <= 80
                /\ \A e \in lost, f \in new : f.timestamp >= e.timestamp
                /\ [key |-> key, thread_id |-> op'.arg, timestamp |-> now] \in new
                /\ Cardinality(new) = Len(thread_id_cache')]_vars

C5_Witness ==
    /\ op.name = "put"
    /\ op.evicted # {}
    /\ op.key \notin op.evicted
    /\ HasKey(thread_id_cache, op.key)
    /\ \E e \in Entries(thread_id_cache) : Age(e) > 0

(* value stored for a key, in memory and on disk *)
MemValue(cache, key) ==
    IF HasKey(cache, key) THEN {Lookup(cache, key)} ELSE {}

FileValue(file, key) == {e \in file.entries : e.key = key}

(* C7 as stated: a put replaces one key atomically.  After the put the cache
   in memory holds the new value of the key, the cache file parses and holds
   the complete old or the complete new value of the key, and no other key
   has changed in memory *)
C7_AtomicPut ==
    [][PutStep
          => LET key == op'.key
                 value == {[key |-> key, thread_id |-> op'.arg, timestamp |-> now]}
             IN /\ MemValue(thread_id_cache', key) = value
                /\ cache_file'.parse_ok
                /\ FileValue(cache_file', key) \in {FileValue(cache_file, key), value}
                /\ \A e \in cache_file'.entries : e.timestamp # NoTimestamp
                /\ \A k \in Keys(thread_id_cache) \ {key} :
                       MemValue(thread_id_cache', k) = MemValue(thread_id_cache, k)]_vars

----------------------------------------------------------------------------
(* Properties of the search orchestration *)

(* position of the first event of a kind in a resolution, 0 if it has none *)
EventAt(events, ev) ==
    LET S == {i \in 1..Len(events) : events[i].ev = ev}
    IN IF S = {} THEN 0 ELSE CHOOSE i \in S : \A j \in S : i <= j

(* the cache key search_thread derives from a title *)
TitleSeries(title) == _extract_base_series_name(title)

TitleSeason(title) == StrSeason(_extract_season_number(title))

(* the last step was a search_thread whose cached id no longer resolved *)
StaleStep ==
    /\ op'.name = "search_thread"
    /\ EventAt(search'.events, "by_id") # 0
    /\ ~search'.events[EventAt(search'.events, "by_id")].hit

(* C6: when search_thread gets a cached id and search_thread_by_id does not
   resolve it, the entry of the pair is deleted, whatever its age, before the
   forum query is issued; unless the same call puts a new id for the pair, the
   pair is absent afterwards and a get for it returns None *)
C6_Invalidate ==
    [][StaleStep
          => LET ev == search'.events
                 series == TitleSeries(search'.title)
                 season == TitleSeason(search'.title)
                 key == CacheKey(series, season)
             IN /\ HasKey(thread_id_cache, key)
                /\ EventAt(ev, "del") # 0
                /\ EventAt(ev, "query") # 0
                /\ EventAt(ev, "del") < EventAt(ev, "query")
                /\ EventAt(ev, "put") = 0 =>
                       /\ ~HasKey(thread_id_cache', key)
                       /\ GetResult(thread_id_cache', series, season, now') = None
                /\ EventAt(ev, "put") # 0 =>
                       /\ EventAt(ev, "query") < EventAt(ev, "put")
                       /\ Lookup(thread_id_cache', key) =
                              [key |-> key,
                               thread_id |-> extract_thread_id_from_url(search'.ret),
                               timestamp |-> now']]_vars

C6_Witness ==
    /\ search.call = "search_thread"
    /\ EventAt(search.events, "del") = 3
    /\ EventAt(search.events, "query") = 5
    /\ EventAt(search.events, "put") = 0
    /\ now = TTL_DAYS
    /\ ~HasKey(thread_id_cache, CacheKey(TitleSeries(search.title), TitleSeason(search.title)))

(* exact literal title, then the metadata-derived queries, then the
   season-level query *)
StrategyRank(strategy) ==
    IF strategy = "exact" THEN 1 ELSE IF strategy = "season-level" THEN 3 ELSE 2

TitleStep == op'.name = "search_thread_by_release_title"

(* the queries issued are the first ones of the generated list, in its order,
   the literal title first and most specific first; none but the last yielded
   a thread; a thread is returned exactly when the last one yielded it *)
QueriesInOrder(title, ev, ret) ==
    LET queries == TitleQueries(title)
    IN /\ Len(ev) <= Len(queries)
       /\ \A i \in 1..Len(ev) :
              ev[i].ev = "query" /\ ev[i].q = queries[i].q
                  /\ ev[i].strategy = queries[i].strategy
       /\ queries[1].q = Join(title)
       /\ \A i, j \in 1..Len(ev) :
              i < j => StrategyRank(ev[i].strategy) <= StrategyRank(ev[j].strategy)
       /\ \A i \in 1..(Len(ev) - 1) : ~ev[i].hit
       /\ ret # NoUrl <=> (ev # <<>> /\ ev[Len(ev)].hit)

AllTried(title, ev) ==
    /\ Len(ev) = Len(TitleQueries(title))
    /\ \A i \in 1..Len(ev) : ~ev[i].hit

(* C8 as stated: the queries are issued in the fixed order, the search stops
   at the first query that yields a thread, and None is returned only after
   every generated query has been tried and failed *)
C8_NoneAfterAll ==
    [][TitleStep
          => /\ QueriesInOrder(search'.title, search'.events, search'.ret)
             /\ search'.ret = NoUrl => AllTried(search'.title, search'.events)]_vars

(* C8 amended: the same, provided the session is verified or the re-login
   succeeds; when both fail, None is returned and no query is issued *)
C8_QueryOrder ==
    [][TitleStep
          => /\ QueriesInOrder(search'.title, search'.events, search'.ret)
             /\ search'.session_ok =>
                    (search'.ret = NoUrl => AllTried(search'.title, search'.events))
             /\ ~search'.session_ok =>
                    (search'.ret = NoUrl /\ search'.events = <<>>)]_vars

C8_Witness ==
    /\ search.call = "search_thread_by_release_title"
    /\ search.ret # NoUrl
    /\ Len(search.events) = 3
    /\ search.events[3].hit
    /\ Len(TitleQueries(search.title)) > 3

(* C9 as stated: a resolution of a title whose series and season are known
   consults the cache before it issues a forum query, and when it returns a
   thread whose id can be read from the URL, a get for the series and season
   returns that id afterwards; for search_thread_by_release_title as well as
   for search_thread *)
C9_CacheFirst ==
    [][(op'.name \in {"search_thread", "search_thread_by_release_title"}
           /\ Known(TitleSeries(search'.title), _extract_season_number(search'.title)))
          => LET series == TitleSeries(search'.title)
                 season == TitleSeason(search'.title)
                 thread_id == extract_thread_id_from_url(search'.ret)
             IN /\ EventAt(search'.events, "query") # 0 =>
                       /\ EventAt(search'.events, "get") # 0
                       /\ EventAt(search'.events, "get") < EventAt(search'.events, "query")
                /\ thread_id # None =>
                       GetResult(thread_id_cache', series, season, now') = thread_id]_vars

----------------------------------------------------------------------------
(* Properties of title parsing and query generation *)

(* the literal title with the filename extension, the resolution and codec
   tokens and the trailing -GROUPNAME suffix stripped *)
CleanedAsSpecified(title) ==
    LET n == Len(title)
        bare == [i \in 1..n |->
                    IF i = n THEN [title[i] EXCEPT !.ext = "", !.hy = ""]
                    ELSE title[i]]
    IN Join(SelectSeq(bare, LAMBDA t :
                t.kind \notin {"res", "res_other", "codec", "codec2"}))

(* the title has the form "X - S{ss}E{ee} ..." with X not empty *)
DashSEForm(title) == DashThen(title, "se") > 1

(* C10 as stated: for a title "X - S{ss}E{ee} ..." the parsed base title is X,
   the parsed season is ss, and the first two generated strategies are the
   literal title and the cleaned title, in this order *)
C10_ParsedAndFirstTwo ==
    (/\ search.call = "_build_enhanced_search_queries"
     /\ ~search.raised
     /\ DashSEForm(search.title))
    => LET title == search.title
           at == DashThen(title, "se")
       IN /\ _extract_base_series_name(title) = Join(NoBrackets(SubSeq(title, 1, at - 1)))
          /\ _extract_season_number(title) = title[at + 1].sdig
          /\ Len(search.events) >= 2
          /\ search.events[1].q = Join(title)
          /\ search.events[2].q = CleanedAsSpecified(title)

(* the strategies after the literal title, most specific first *)
StrategyOrder ==
    <<"season-metadata", "metadata-only", "resolution-only", "codec-only",
      "year-metadata", "season-level">>

(* the inputs a strategy is built from are all present *)
HasInputs(strategy, base, season, resolution, codec, year) ==
    /\ base \notin {None, ""}
    /\ CASE strategy = "season-metadata" ->
                season # NoDigits /\ (resolution # None \/ codec # None)
         [] strategy = "metadata-only" -> resolution # None \/ codec # None
         [] strategy = "resolution-only" -> resolution # None
         [] strategy = "codec-only" -> codec # None
         [] strategy = "year-metadata" -> year # None
         [] strategy = "season-level" -> season # NoDigits

(* the text a strategy puts after the base title *)
ExpectedSuffix(strategy, season, resolution, codec, year) ==
    LET tags == IF resolution # None /\ codec # None
                THEN resolution \o " " \o codec
                ELSE IF resolution # None THEN resolution ELSE codec
    IN CASE strategy = "season-metadata" ->
                " Stagione " \o DigitsText(season) \o " " \o tags
         [] strategy = "metadata-only" -> " " \o tags
         [] strategy = "resolution-only" -> " " \o resolution
         [] strategy = "codec-only" -> " " \o codec
         [] strategy = "year-metadata" -> " " \o year
         [] strategy = "season-level" -> " - Stagione " \o DigitsText(season)

(* the strategies whose inputs are present, in the order, with their texts *)
ExpectedQueries(base, season, resolution, codec, year) ==
    LET kept == SelectSeq(StrategyOrder,
                          LAMBDA st : HasInputs(st, base, season, resolution, codec, year))
    IN [k \in 1..Len(kept) |->
           Query(kept[k], base \o ExpectedSuffix(kept[k], season, resolution, codec, year))]

Expected(title) ==
    The({ExpectedQueries(base, season, resolution, codec, year) :
            base \in {_extract_base_series_name(title)},
            season \in {_extract_season_number(title)},
            resolution \in {_extract_resolution(title)},
            codec \in {_extract_codec(title)},
            year \in {_extract_year(title)}})

(* the names _build_enhanced_search_queries gives the metadata strategies *)
MetadataNames == {"metadata_" \o StrategyOrder[k] : k \in 1..5}

(* C11: after the literal title the queries tried are, in this order, base
   title + season + tags, base title + tags, base title + resolution, base
   title + codec, base title + year and last the season-level query; a
   strategy whose inputs are missing is left out, the others keep their order,
   and nothing is raised; the generated list of
   _build_enhanced_search_queries holds its metadata queries in the same order *)
C11_StrategyOrder ==
    [][\E expected \in {Expected(search'.title)} :
        /\ (TitleStep /\ search'.session_ok) =>
               LET ev == search'.events
               IN /\ ~search'.raised
                  /\ Len(ev) <= 1 + Len(expected)
                  /\ ev[1].strategy = "exact"
                  /\ \A k \in 2..Len(ev) :
                         /\ ev[k].strategy = expected[k - 1].strategy
                         /\ ev[k].q = expected[k - 1].q
                  /\ (\A k \in 1..Len(ev) : ~ev[k].hit) => Len(ev) = 1 + Len(expected)
        /\ (op'.name = "_build_enhanced_search_queries" /\ ~search'.raised) =>
               LET kept == SelectSeq(search'.events,
                                     LAMBDA e : e.strategy \in MetadataNames)
                   generated == SelectSeq(expected,
                                          LAMBDA x : x.strategy # "season-level")
               IN /\ Len(kept) = Len(generated)
                  /\ \A k \in 1..Len(kept) :
                         /\ kept[k].strategy = "metadata_" \o generated[k].strategy
                         /\ kept[k].q = generated[k].q]_vars

(* every query failed; codec and year are missing from the title *)
C11_Witness ==
    /\ search.call = "search_thread_by_release_title"
    /\ Len(search.events) = 5
    /\ \A i \in 1..5 : ~search.events[i].hit
    /\ [i \in 1..5 |-> search.events[i].strategy]
           = <<"exact", "season-metadata", "metadata-only", "resolution-only",
               "season-level">>
    /\ search.events[2].q = "Show Stagione 01 1080p"
    /\ search.events[5].q = "Show - Stagione 01"

(* C12 as stated: the base title of a release title is null or at least two
   characters long; when it is null no metadata-derived and no season-level
   query is generated, and the search tries the literal title only *)
C12_BaseNullOrLong ==
    (search.call = "search_thread_by_release_title" /\ search.session_ok)
    => LET base == _extract_base_series_name(search.title)
       IN /\ base = None \/ Len(base) >= 2
          /\ base = None =>
                 /\ _extract_enhanced_search_queries(search.title) = <<>>
                 /\ _extract_season_search_query(search.title) = None
                 /\ Len(search.events) = 1
                 /\ search.events[1].q = Join(search.title)

----------------------------------------------------------------------------
(* Properties of main(): the needed episodes *)

(* the needed episodes have been resolved *)
Resolved == run.pc \in {"loop", "done"}

(* season and episode list are both present and numeric *)
PresentAndNumeric(season_number, episode_numbers) ==
    /\ season_number # NoNumber /\ episode_numbers # NoEpisodes
    /\ AllDigits(season_number)
    /\ \A k \in 1..Len(episode_numbers) :
           episode_numbers[k] = NoNumber \/ AllDigits(episode_numbers[k])

(* one full code per listed episode number under the season *)
ExplicitCodes(season_number, episode_numbers) ==
    IF PresentAndNumeric(season_number, episode_numbers)
    THEN {Code(DigitsValue(season_number), DigitsValue(episode_numbers[k])) :
             k \in {j \in 1..Len(episode_numbers) : episode_numbers[j] # NoNumber}}
    ELSE {}

(* C13: the sources are evaluated in the order explicit fields, file path,
   release title, up to the first that yields codes: explicit fields that are
   present and numeric give one code per listed number and the path is not
   consulted; otherwise (also when they are present and not numeric) a
   non-empty path is parsed and the run goes on; the release title is
   consulted only when neither gave a code *)
C13_Precedence ==
    Resolved =>
        LET env == run.env
            a == ExplicitCodes(env.season_number, env.episode_numbers)
            b == IF env.episode_file_relative_path # <<>>
                 THEN parse_needed_episodes(env.episode_file_relative_path) ELSE {}
            src == run.sources
            at(name) == {k \in 1..Len(src) : src[k] = name}
        IN /\ \A j, k \in 1..Len(src) :
                  (j < k) => <<src[j], src[k]>> \in
                      {<<"variables", "file_path">>, <<"variables", "release_title">>,
                       <<"file_path", "release_title">>}
           /\ a # {} => /\ run.needed_episodes = a
                        /\ at("file_path") = {} /\ at("release_title") = {}
           /\ (a = {} /\ env.episode_file_relative_path # <<>>) =>
                  /\ at("file_path") # {}
                  /\ run.needed_episodes = b
           /\ (a = {} /\ b # {}) => at("release_title") = {}
           /\ (a = {} /\ b = {}) => /\ at("release_title") # {}
                                    /\ run.needed_episodes = {}
           /\ env.episode_file_relative_path = <<>> => at("file_path") = {}

(* season "x" with episodes "5,6": the path gives the codes *)
C13_Witness ==
    /\ Resolved
    /\ run.env.season_number = <<LetterX>>
    /\ run.env.episode_numbers = <<<<5>>, <<6>>>>
    /\ run.sources = <<"variables", "file_path">>
    /\ run.needed_episodes = {"S02E05", "S02E06", "S02E07"}

(* the magnet at position k of the log was judged by its codes *)
Filtered(k) ==
    LET entry == run.loop.log[k]
        disjoint == entry.episode_codes_found \cap run.needed_episodes = {}
        last == entry.branches[Len(entry.branches)]
    IN /\ disjoint => last = "skip"
       /\ ~disjoint => last \in {"add", "keep_original"}

(* C14: all episodes are processed exactly when neither the explicit fields
   nor the file path gave a code, whether or not the release title names a
   season; either all episodes are processed and the needed set is empty, or
   they are not, the needed set is not empty and every magnet is judged by
   its codes *)
C14_ProcessAllOrFilter ==
    Resolved =>
        LET env == run.env
            a == ExplicitCodes(env.season_number, env.episode_numbers)
            b == IF env.episode_file_relative_path # <<>>
                 THEN parse_needed_episodes(env.episode_file_relative_path) ELSE {}
        IN /\ run.process_all_episodes <=> (a = {} /\ b = {})
           /\ \/ /\ run.process_all_episodes
                 /\ run.needed_episodes = {}
                 /\ \A k \in 1..Len(run.loop.log) :
                        "skip" \notin {run.loop.log[k].branches[j] :
                                          j \in 1..Len(run.loop.log[k].branches)}
              \/ /\ ~run.process_all_episodes
                 /\ run.needed_episodes # {}
                 /\ \A k \in 1..Len(run.loop.log) : Filtered(k)

(* all episodes are processed although the release title names season 2 *)
C14_Witness ==
    /\ run.pc = "done"
    /\ run.process_all_episodes
    /\ season_match(run.env.release_title) = <<2>>
    /\ run.env.season_number = <<2>>
    /\ Len(run.loop.log) = 2
    /\ run.loop.log[2].branches = <<"add">>

(* the ranges SxxEyy-Ezz of a path *)
RangesOf(path) == {k \in 1..Len(path) : path[k].kind = "SxEy-Ez"}

(* every code of a range, first to last episode *)
RangeCodes(part) ==
    {Code(DigitsValue(part.s), ep) : ep \in DigitsValue(part.e)..DigitsValue(part.f)}

(* C15: without explicit fields, a file path that holds a range SxxEyy-Ezz
   and no other marker gives exactly the codes of the range, and not all
   episodes are processed *)
C15_PathRange ==
    (/\ Resolved
     /\ run.env.season_number = NoNumber
     /\ run.env.episode_numbers = NoEpisodes
     /\ RangesOf(run.env.episode_file_relative_path) # {}
     /\ \A k \in 1..Len(run.env.episode_file_relative_path) :
            run.env.episode_file_relative_path[k].kind \in {"plain", "SxEy-Ez"})
    => /\ run.needed_episodes =
              UNION {RangeCodes(run.env.episode_file_relative_path[k]) :
                        k \in RangesOf(run.env.episode_file_relative_path)}
       /\ ~run.process_all_episodes

C15_Witness ==
    /\ Resolved
    /\ run.env.season_number = NoNumber
    /\ run.env.episode_numbers = NoEpisodes
    /\ run.env.episode_file_relative_path
           = <<Plain, SxEyEz(<<0, 2>>, <<0, 5>>, <<0, 7>>)>>
    /\ run.needed_episodes = {"S02E05", "S02E06", "S02E07"}
    /\ ~run.process_all_episodes

(* the ranges of a text in either form, and its markers *)
BulkRanges(text) == {k \in 1..Len(text) : text[k].kind \in {"SxEy-Ez", "SxEy-z"}}

NoMarker(text) == \A k \in 1..Len(text) : text[k] = Plain

(* C16 as stated: bulk extraction, on magnet titles as on file paths, expands
   a range SxxEyy-Ezz or SxxEyy-zz into every code from yy to zz of the
   season, and gives the empty set for a text without a code *)
C16_BulkRange ==
    Resolved =>
        /\ \A k \in 1..Len(run.loop.log) :
               LET magnet_title == run.magnets[k].magnet_title
                   found == run.loop.log[k].episode_codes_found
               IN /\ \A r \in BulkRanges(magnet_title) :
                         RangeCodes(magnet_title[r]) \subseteq found
                  /\ NoMarker(magnet_title) => found = {}
        /\ "file_path" \in {run.sources[k] : k \in 1..Len(run.sources)} =>
               LET path == run.env.episode_file_relative_path
               IN /\ \A r \in BulkRanges(path) :
                         RangeCodes(path[r]) \subseteq run.needed_episodes
                  /\ NoMarker(path) => run.needed_episodes = {}

----------------------------------------------------------------------------
(* Properties of main(): the loop over the magnets *)

(* the decision taken for the magnet at position k of the log *)
Decision(k) ==
    LET branches == run.loop.log[k].branches
    IN IF branches = <<"keep_original">> THEN "KEEP"
       ELSE IF branches[1] = "remove_original" THEN "REPLACE"
       ELSE IF branches = <<"add">> THEN "INCLUDE"
       ELSE "SKIP"

CallNames(calls) == {calls[j].name : j \in 1..Len(calls)}

(* the magnet at position k was not added and nothing was removed for it *)
Untouched(k) ==
    CallNames(run.loop.log[k].calls) \cap {"add_magnet", "remove_torrent"} = {}

Intersects(k) == run.loop.log[k].episode_codes_found \cap run.needed_episodes # {}

(* C17 as stated: when all episodes are processed, the first magnet is KEEP,
   neither added nor anything removed, and every other magnet is INCLUDE, an
   add being attempted outside test mode; also when the first magnet has no
   hash the client can extract *)
C17_ProcessAll ==
    (Resolved /\ run.process_all_episodes) =>
        \A k \in 1..Len(run.loop.log) :
            IF k = 1 THEN Decision(k) = "KEEP" /\ Untouched(k)
            ELSE /\ Decision(k) = "INCLUDE"
                 /\ ~run.env.TEST_MODE =>
                        "add_magnet" \in CallNames(run.loop.log[k].calls)

(* C18 as stated: when not all episodes are processed, a first magnet whose
   codes miss the needed set is REPLACE, the original torrent being marked
   for removal and the magnet not added, a first magnet whose codes meet it
   is KEEP, not added and nothing removed; another magnet is INCLUDE exactly
   when its codes meet the needed set and SKIP otherwise *)
C18_Filter ==
    (Resolved /\ ~run.process_all_episodes) =>
        \A k \in 1..Len(run.loop.log) :
            IF k = 1
            THEN /\ ~Intersects(k) =>
                        /\ Decision(k) = "REPLACE"
                        /\ run.loop.log[k].branches = <<"remove_original", "skip">>
                        /\ "add_magnet" \notin CallNames(run.loop.log[k].calls)
                 /\ Intersects(k) => Decision(k) = "KEEP" /\ Untouched(k)
            ELSE /\ Intersects(k) <=> Decision(k) = "INCLUDE"
                 /\ ~Intersects(k) <=> Decision(k) = "SKIP"

(* the loop over the first n magnets outside test mode when every remove and
   every add succeeds *)
RECURSIVE NormalLoop(_)
NormalLoop(n) ==
    IF n = 0 THEN NoLoop({run.first_magnet_hash} \ {None})
    ELSE MagnetStep(NormalLoop(n - 1), n - 1, run.magnets[n], run.needed_episodes,
                    run.process_all_episodes, run.first_magnet_hash, FALSE, TRUE,
                    TRUE)

Branches(log) == [k \in 1..Len(log) |-> log[k].branches]

(* C19: in test mode the loop never calls add_magnet or remove_torrent, and
   its decisions and its count of added and kept magnets are those of a run
   outside test mode in which every add and every remove succeeds *)
C19_TestMode ==
    (Resolved /\ run.env.TEST_MODE) =>
        /\ CallNames(run.loop.calls) \cap {"add_magnet", "remove_torrent"} = {}
        /\ Branches(run.loop.log) = Branches(NormalLoop(run.i).log)
        /\ run.loop.added_count = NormalLoop(run.i).added_count

(* a test run that would remove the original torrent and add a magnet *)
C19_Witness ==
    /\ run.pc = "done"
    /\ run.env.TEST_MODE
    /\ Branches(run.loop.log) = <<<<"remove_original", "skip">>, <<"add">>>>
    /\ run.loop.added_count = 1
    /\ run.loop.calls = <<>>
    /\ NormalLoop(2).calls # <<>>

----------------------------------------------------------------------------
(* Properties of extract_episode_info *)

(* the text of a part SxxEyy *)
CodeText(part) == "S" \o DigitsText(part.s) \o "E" \o DigitsText(part.e)

(* the text is one full code: S, two digits, E, two digits *)
FullCode(text) ==
    /\ Len(text) = 1 /\ text[1].kind = "SxEy"
    /\ Len(text[1].s) = 2 /\ Len(text[1].e) = 2

(* C20: given a full code S{ss}E{ee} as plain text, extract_episode_info
   returns that code *)
C20_Idempotent ==
    (/\ info.call = "extract_episode_info"
     /\ FullCode(info.context_texts[2]))
    => info.ret = CodeText(info.context_texts[2][1])

C20_Witness ==
    /\ info.call = "extract_episode_info"
    /\ info.context_texts = <<<<SxEy(<<0, 7>>, <<0, 0>>)>>, <<SxEy(<<0, 7>>, <<0, 0>>)>>>>
    /\ info.ret = "S07E00"

(* the kinds of part that show a season and an episode, a season, an episode *)
FormKinds(form) ==
    IF form = "combined"
    THEN SxEyKinds \cup NxMKinds
             \cup {"Nth Season Episode M", "Season N Ep M", "Stagione N Ep M"}
    ELSE IF form = "season" THEN {"Stagione N", "Season N", "Nth Season"}
    ELSE {"Ep N", "Episodio N", "Episode N"}

PartsOf(text, form) == {text[j] : j \in {i \in 1..Len(text) : text[i].kind \in FormKinds(form)}}

Marked(text) == \E form \in {"combined", "season", "episode"} : PartsOf(text, form) # {}

(* E{ee} *)
BareCode(ep) == "E" \o DigitsText(Format02d(ep))

(* what a text in which a pattern matches may give: a full code when it holds
   a combined form, else a season pack when it holds a season form, else the
   episode of a bare-episode form, with or without a season *)
Reading(text) ==
    IF PartsOf(text, "combined") # {}
    THEN {Code(DigitsValue(p.s), DigitsValue(p.e)) : p \in PartsOf(text, "combined")}
    ELSE IF PartsOf(text, "season") # {}
    THEN {Code(DigitsValue(p.s), 0) : p \in PartsOf(text, "season")}
    ELSE UNION {{BareCode(DigitsValue(p.e))}
                   \cup {Code(DigitsValue(text[j].s), DigitsValue(p.e)) :
                            j \in {i \in 1..Len(text) : text[i].s # <<>>}} :
                  p \in PartsOf(text, "episode")}

(* C21: the first context text in which a pattern matches decides the result;
   in that text a combined season+episode form gives a full code before a
   season-only form gives a season pack SxxE00 before a bare-episode form
   gives its episode; "Unknown" when no text matches a pattern *)
C21_PatternPriority ==
    info.call = "extract_episode_info" =>
        LET marked == {i \in 1..Len(info.context_texts) : Marked(info.context_texts[i])}
        IN IF marked = {} THEN info.ret = "Unknown"
           ELSE \E k \in marked :
                   /\ \A i \in marked : k <= i
                   /\ info.ret \in Reading(info.context_texts[k])

(* a season form in front of a combined form in the first text, a full code
   in the second: the combined form of the first text is returned *)
C21_Witness ==
    /\ info.call = "extract_episode_info"
    /\ info.context_texts =
           <<<<SeasonN(<<5>>), SxEy(<<5>>, <<4>>)>>, <<SxEy(<<9>>, <<9>>)>>>>
    /\ info.ret = "S05E04"

(* the season tokens of a text: the digits that follow a letter S *)
SeasonTokens(text) == {i \in 1..Len(text) : text[i].s # <<>>}

(* only a bare-episode form matches the text *)
OnlyBareEpisode(text) ==
    /\ PartsOf(text, "combined") = {} /\ PartsOf(text, "season") = {}
    /\ PartsOf(text, "episode") # {}

(* C22: when only a bare-episode form matches the deciding text, the result is
   S{season:02}E{N:02} with the season of the first season token of that text
   when it has one, and the bare code E{N:02} when it has none *)
C22_SeasonContext ==
    info.call = "extract_episode_info" =>
        \A k \in 1..Len(info.context_texts) :
            (/\ OnlyBareEpisode(info.context_texts[k])
             /\ \A i \in 1..(k - 1) : ~Marked(info.context_texts[i]))
            => \E text \in {info.context_texts[k]} :
                  \E p \in PartsOf(text, "episode") :
                     IF SeasonTokens(text) # {}
                     THEN \E j \in SeasonTokens(text) :
                             /\ \A i \in SeasonTokens(text) : j <= i
                             /\ info.ret = Code(DigitsValue(text[j].s), DigitsValue(p.e))
                     ELSE info.ret = BareCode(DigitsValue(p.e))

(* "Episode 7" with a season token after it in the same text *)
C22_Witness ==
    /\ info.call = "extract_episode_info"
    /\ info.context_texts[1] = <<EpisodeN(<<7>>), PlainS(<<2>>)>>
    /\ info.ret = "S02E07"

(* the list as C23 reads it: the ancestors, the direct children of each
   ancestor, the element and its direct children, without duplicates *)
RECURSIVE ChildrenOfEach(_, _)
ChildrenOfEach(parent, elems) ==
    IF elems = <<>> THEN <<>>
    ELSE find_all(parent, elems[1]) \o ChildrenOfEach(parent, Tail(elems))

DirectContext(parent, magnet_element) ==
    LET ancestors == Parents(parent, magnet_element, 5)
    IN unique_context(ancestors \o ChildrenOfEach(parent, ancestors)
                          \o <<magnet_element>> \o find_all(parent, magnet_element))

(* C23: the candidate list of extract_episode_info is the at most five
   ancestors of the element, nearest first, the direct children of each of
   them, the element and the element's direct children, and no deeper
   descendant, each node once in first-seen order *)
C23_DirectChildrenOnly ==
    info.call = "extract_episode_info" =>
        info.context_elements = DirectContext(info.parent, info.magnet_element)

----------------------------------------------------------------------------
(* Properties of the episode codes *)

(* the codes S{ss}E{ee} and E{ee}: upper-case letters, two digits each *)
NormalCodes ==
    {Code(season, ep) : season \in 0..MaxNumber, ep \in 0..MaxNumber}
        \cup {BareCode(ep) : ep \in 0..MaxNumber}

(* C24: every episode code that main compares, the needed ones from the
   Sonarr variables or the file path and the ones found in a magnet title, is
   written S{ss}E{ee} with upper-case letters and two digits each *)
C24_NormalShape ==
    run.pc \in {"loop", "done"} =>
        /\ run.needed_episodes \subseteq NormalCodes
        /\ \A k \in 1..Len(run.loop.log) :
              run.loop.log[k].episode_codes_found \subseteq NormalCodes

----------------------------------------------------------------------------
(* Properties of the error handling *)

(* C25: no function of the title parsing and the query generation raises,
   whatever strings it is given: _build_enhanced_search_queries with a
   non-numeric season or episode returns a list of queries as well *)
C25_NeverRaises ==
    search.call \in {"_build_enhanced_search_queries", "search_thread_by_release_title"}
        => ~search.raised

----------------------------------------------------------------------------
(* Properties of the magnet extraction *)

EventsOf(log, ev) == SelectSeq(log, LAMBDA s : s.ev = ev)

(* C26: _extract_magnets_from_page(url, max_retries) sends at most max_retries
   GET requests.  Every request but the last failed with a request error and
   was followed by one sleep.  It returns the magnets of the page of the first
   request that succeeds, after k requests and k - 1 sleeps; [] after
   max_retries failed requests; [] at once after another error. *)
C26_RetryLoop ==
    run.pc \in {"get", "sleep", "returned"} /\ run.call = "_extract_magnets_from_page" =>
        LET gets == EventsOf(run.log, "get")
            sleeps == EventsOf(run.log, "sleep")
        IN /\ Len(gets) <= run.max_retries
           /\ \A k \in 1..(Len(gets) - 1) : gets[k].outcome = "request_error"
           /\ run.pc = "returned" =>
                 /\ Len(gets) >= 1
                 /\ Len(sleeps) = Len(gets) - 1
                 /\ \E last \in {gets[Len(gets)]} :
                       /\ last.outcome = "ok" => run.ret = last.magnets
                       /\ last.outcome = "request_error" =>
                             run.ret = <<>> /\ Len(gets) = run.max_retries
                       /\ last.outcome = "error" => run.ret = <<>>

(* two failed requests, then a page with a magnet: 3 GETs, 2 sleeps *)
C26_Witness ==
    /\ run.pc = "returned" /\ run.call = "_extract_magnets_from_page"
    /\ run.max_retries = 3
    /\ Len(EventsOf(run.log, "get")) = 3
    /\ Len(EventsOf(run.log, "sleep")) = 2
    /\ run.ret = <<Magnet("AA", "hex40")>>

(* the functions extract_magnets_from_thread has called, with their URL and
   the value each returned *)
CallsOf(log) ==
    LET calls == EventsOf(log, "call")
        returns == SelectSeq(log, LAMBDA s :
                       s.ev = "return" /\ s.fn # "extract_magnets_from_thread")
    IN [k \in 1..Len(calls) |->
           [fn |-> calls[k].fn, url |-> calls[k].url,
            magnets |-> IF k <= Len(returns) THEN returns[k].magnets ELSE None]]

(* C27: extract_magnets_from_thread returns the magnets of the primary
   extraction from the thread page when there are any, and then calls nothing
   else; otherwise, with a forum_post_url, it returns what the extraction
   from the post URL finds and never calls the legacy extraction; otherwise
   it calls the legacy extraction once on the thread URL and returns what
   that finds; it returns [] when every step finds nothing or fails *)
C27_FallbackChain ==
    run.pc = "returned" /\ run.call = "extract_magnets_from_thread" =>
        \E calls \in {CallsOf(run.log)} :
           /\ calls[1].fn = "_extract_magnets_from_page"
           /\ calls[1].url = run.thread_url
           /\ IF calls[1].magnets # <<>>
              THEN Len(calls) = 1 /\ run.ret = calls[1].magnets
              ELSE /\ Len(calls) = 2
                   /\ run.ret = calls[2].magnets
                   /\ calls[2].fn = IF run.forum_post_url # None
                                    THEN "_extract_magnets_from_page"
                                    ELSE "_extract_magnets_legacy_mode"
                   /\ calls[2].url = IF run.forum_post_url # None
                                     THEN run.forum_post_url ELSE run.thread_url
           /\ (\A k \in 1..Len(run.log) :
                  run.log[k].ev = "get" => run.log[k].outcome # "ok"
                                               \/ run.log[k].magnets = <<>>)
                 => run.ret = <<>>

(* the thread page holds no magnet, the post URL fails twice and then gives
   a page with a magnet *)
C27_Witness ==
    /\ run.pc = "returned" /\ run.call = "extract_magnets_from_thread"
    /\ run.forum_post_url = "post"
    /\ Len(EventsOf(run.log, "call")) = 2
    /\ Len(EventsOf(run.log, "sleep")) = 2
    /\ run.ret = <<Magnet("AA", "hex40")>>

----------------------------------------------------------------------------
(* Properties of the Sonarr client *)

(* C28: get_series_episodes and get_series_by_title send at most 3 requests.
   Every request but the last failed with a request error.  They return what
   the first request that succeeds gives and send nothing after it, and
   after three failed requests they return [] and None; a request error never
   gets out of them. *)
C28_ThreeRequests ==
    run.call \in {"get_series_episodes", "get_series_by_title"} /\ run.pc # "start" =>
        LET gets == EventsOf(run.log, "get")
            sleeps == EventsOf(run.log, "sleep")
        IN /\ Len(gets) <= 3
           /\ \A k \in 1..(Len(gets) - 1) : gets[k].outcome = "request_error"
           /\ run.pc = "raised" => gets[Len(gets)].outcome = "error"
           /\ run.pc = "returned" =>
                 /\ Len(gets) >= 1
                 /\ Len(sleeps) = Len(gets) - 1
                 /\ \E last \in {gets[Len(gets)]} :
                       /\ last.outcome # "error"
                       /\ last.outcome = "request_error" => Len(gets) = 3
                       /\ IF run.call = "get_series_episodes"
                          THEN run.ret = IF last.outcome = "ok" THEN last.value ELSE <<>>
                          ELSE IF last.outcome = "ok"
                          THEN \/ run.ret = NoSeries
                               \/ \E k \in 1..Len(last.value) : run.ret = last.value[k]
                          ELSE run.ret = NoSeries

(* two failed requests, then the episodes: 3 requests, 2 sleeps *)
C28_Witness ==
    /\ run.pc = "returned" /\ run.call = "get_series_episodes"
    /\ Len(EventsOf(run.log, "get")) = 3
    /\ Len(EventsOf(run.log, "sleep")) = 2
    /\ run.ret = <<Episode(1, 1, TRUE)>>

(* what fn returned to get_existing_episodes; <<>> when it did not return *)
ReturnsOf(log, fn) == SelectSeq(log, LAMBDA s : s.ev = "return" /\ s.fn = fn)

(* C29: get_existing_episodes returns the set of the codes
   S{season:02}E{episode:02} of the episodes of the series found that have a
   file, and the empty set when no series is found or a lookup fails *)
C29_ExistingEpisodes ==
    run.call = "get_existing_episodes" /\ run.pc = "returned" =>
        \E found \in {ReturnsOf(run.log, "get_series_by_title")} :
        \E listed \in {ReturnsOf(run.log, "get_series_episodes")} :
           IF found # <<>> /\ found[1].value # NoSeries /\ listed # <<>>
           THEN \E episodes \in {listed[1].value} :
                   run.ret = {Code(episodes[i].seasonNumber, episodes[i].episodeNumber) :
                                 i \in {j \in 1..Len(episodes) : episodes[j].hasFile}}
           ELSE run.ret = {}

(* an episode with a file and one without *)
C29_Witness ==
    /\ run.call = "get_existing_episodes" /\ run.pc = "returned"
    /\ \E k \in 1..Len(run.log) :
          /\ run.log[k].ev = "get" /\ run.log[k].fn = "get_series_episodes"
          /\ run.log[k].value = <<Episode(1, 1, TRUE), Episode(1, 2, FALSE)>>
    /\ run.ret = {"S01E01"}

(* no space at either end, no two spaces in a row, no special character *)
Normalized(cs) ==
    /\ cs # <<>> => ~IsSpace(cs[1]) /\ ~IsSpace(cs[Len(cs)])
    /\ \A i \in 1..(Len(cs) - 1) : ~(IsSpace(cs[i]) /\ IsSpace(cs[i + 1]))
    /\ \A i \in 1..Len(cs) : IsWordChar(cs[i]) \/ IsSpace(cs[i])

(* C30: normalize_title returns the title without whitespace at its ends, with
   every run of whitespace collapsed to one space and without the characters
   that are neither word characters nor whitespace; get_series_by_title
   returns the first series of the list whose normalized title is the
   normalized title asked for, letter case apart, and None when there is none *)
C30_Normalized ==
    /\ run.call = "normalize_title" /\ run.pc = "returned" =>
          /\ Normalized(run.ret)
          /\ SelectSeq(run.ret, IsWordChar) = SelectSeq(run.title, IsWordChar)
    /\ run.call = "get_series_by_title" /\ run.pc = "returned" =>
          \E last \in {run.log[Len(run.log) - 1]} :
             last.outcome = "ok" =>
                \E same \in {{k \in 1..Len(last.value) :
                                LowerCase(normalize_title(last.value[k].title))
                                   = LowerCase(normalize_title(run.title))}} :
                   IF same = {} THEN run.ret = NoSeries
                   ELSE \E k \in same : run.ret = last.value[k] /\ \A j \in same : k <= j

(* C31: search_thread_by_release_title with a usable session never raises;
   a query whose request failed, whose result page had no container or whose
   list had no thread row is followed by the next query whenever the title
   generates one, and None is returned exactly when no issued query was
   answered with a thread *)
C31_FailureIsNoMatch ==
    (search.call = "search_thread_by_release_title" /\ search.session_ok) =>
        /\ ~search.raised
        /\ Len(search.answers) = Len(search.events)
        /\ \A i \in 1..Len(search.answers) :
               search.answers[i] # "thread" =>
                   /\ ~search.events[i].hit
                   /\ i < Len(TitleQueries(search.title)) => i < Len(search.events)
        /\ search.ret = NoUrl <=>
               \A i \in 1..Len(search.answers) : search.answers[i] # "thread"

C31_Witness ==
    /\ search.call = "search_thread_by_release_title"
    /\ Len(search.answers) = 4
    /\ search.answers[1] = "http_error"
    /\ search.answers[2] = "no_container"
    /\ search.answers[3] = "no_rows"
    /\ search.answers[4] = "thread"
    /\ search.ret = ThreadUrl("t2")

(* the last step was a search_thread *)
SearchStep == op'.name = "search_thread"

(* C32: when search_thread finds a live entry for the series and season of the
   query and the cached thread still resolves, it returns the thread URL built
   from the cached id, issues no forum query and leaves the cache and the
   cache file as they were; when the series or the season cannot be extracted
   from the query, the cache is neither looked up nor written *)
C32_CachedPath ==
    [][SearchStep
          => LET ev == search'.events
                 series == TitleSeries(search'.title)
                 digits == _extract_season_number(search'.title)
                 known == Known(series, digits)
                 cached == IF known
                           THEN GetResult(thread_id_cache, series,
                                          TitleSeason(search'.title), now)
                           ELSE None
             IN /\ (cached # None /\ EventAt(ev, "by_id") # 0
                       /\ ev[EventAt(ev, "by_id")].hit) =>
                       /\ search'.ret = ThreadUrl(cached)
                       /\ EventAt(ev, "query") = 0
                       /\ EventAt(ev, "put") = 0
                       /\ thread_id_cache' = thread_id_cache
                       /\ cache_file' = cache_file
                /\ cached # None => EventAt(ev, "by_id") # 0
                /\ ~known =>
                       /\ EventAt(ev, "get") = 0
                       /\ EventAt(ev, "by_id") = 0
                       /\ EventAt(ev, "put") = 0
                       /\ EventAt(ev, "save") = 0
                       /\ thread_id_cache' = thread_id_cache
                       /\ cache_file' = cache_file]_vars

C32_Witness ==
    /\ search.call = "search_thread"
    /\ Len(search.events) = 2
    /\ search.events[1] = Event("get", "", "", TRUE)
    /\ search.events[2] = Event("by_id", "", "", TRUE)
    /\ search.ret = ThreadUrl("t1")
    /\ HasKey(thread_id_cache, CacheKey("Show", StrSeason(<<0, 1>>)))

(* C33: login sends at most retries form GETs and at most one POST per GET.
   A POST verified as logged in is the last request and makes login return the
   sid or True; False is returned only after retries failed attempts; an
   authenticated session gives no attempt at all; the k-th sleep precedes
   attempt k + 1 and lasts, before jitter, initial_wait * 2^(k-1) seconds,
   300 at most *)
C33_LoginBounded ==
    run.pc \in {"form", "post", "wait", "returned"} /\ run.call = "login" =>
        LET gets == EventsOf(run.log, "get")
            posts == EventsOf(run.log, "post")
            sleeps == EventsOf(run.log, "sleep")
            requests == SelectSeq(run.log, LAMBDA s : s.ev \in {"get", "post"})
            already == run.log[1].outcome = "logged_in"
        IN /\ Len(gets) <= run.retries
           /\ Len(posts) <= Len(gets)
           /\ Len(posts) + (IF run.pc = "post" THEN 1 ELSE 0) =
                  Len(SelectSeq(gets, LAMBDA s : s.outcome = "ok"))
           /\ Len(sleeps) <= Len(gets)
           /\ Len(gets) > 0 => Len(sleeps) >= Len(gets) - 1
           /\ \A k \in 1..Len(sleeps) :
                  /\ sleeps[k].seconds <= 300
                  /\ sleeps[k].seconds = run.initial_wait * (2 ^ (k - 1))
                        \/ (sleeps[k].seconds = 300
                              /\ run.initial_wait * (2 ^ (k - 1)) >= 300)
           /\ \A k \in 1..(Len(requests) - 1) : requests[k].outcome # "logged_in"
           /\ already => (run.pc = "returned" /\ Len(run.log) = 1)
           /\ (run.pc = "returned" /\ ~already) =>
                  /\ Len(sleeps) = (IF Len(gets) = 0 THEN 0 ELSE Len(gets) - 1)
                  /\ run.ret # "False" <=>
                        (requests # <<>>
                           /\ requests[Len(requests)].outcome = "logged_in")
                  /\ run.ret # "False" =>
                        /\ run.ret \notin {"", None}
                        /\ run.log[Len(run.log)].ev = "post"
                  /\ run.ret = "False" => Len(gets) = run.retries

(* three failed attempts, then a login that is verified: 4 GETs, 3 sleeps, the
   last one capped *)
C33_Witness ==
    /\ run.pc = "returned" /\ run.call = "login"
    /\ run.retries = 4 /\ run.initial_wait = 100
    /\ Len(EventsOf(run.log, "get")) = 4
    /\ Len(EventsOf(run.log, "sleep")) = 3
    /\ run.log[Len(run.log) - 2].seconds = 300
    /\ run.ret = "abc"

(* C34: an entry leaves the cache only in a get of its own key or in a put,
   and an entry that stays is changed only by a put of its own key.  A get
   never touches the cache file; on an unexpired entry it leaves the whole
   cache as it was, timestamps included, on an expired entry it removes that
   entry and no other.  The passing of time alone changes nothing, so an
   expired entry stays until such a call *)
C34_LazyOnly ==
    [][/\ \A key \in Keys(thread_id_cache) \ Keys(thread_id_cache') :
              (op'.name = "get" /\ op'.key = key) \/ op'.name = "put"
       /\ \A key \in Keys(thread_id_cache) \cap Keys(thread_id_cache') :
              \/ Lookup(thread_id_cache', key) = Lookup(thread_id_cache, key)
              \/ (op'.name = "put" /\ op'.key = key)
       /\ op'.name = "tick" => thread_id_cache' = thread_id_cache
       /\ op'.name = "get" =>
              /\ cache_file' = cache_file
              /\ ~HasKey(thread_id_cache, op'.key) => thread_id_cache' = thread_id_cache
       /\ (GetStep /\ HasKey(thread_id_cache, op'.key)) =>
              LET e == Lookup(thread_id_cache, op'.key)
              IN /\ Unexpired(e) => thread_id_cache' = thread_id_cache
                 /\ (e.timestamp >= 0 /\ ~Unexpired(e)) =>
                        thread_id_cache' = Delete(thread_id_cache, e.key)]_vars

(* a get has removed its expired entry and another expired entry is still there *)
C34_Witness ==
    /\ op.name = "get"
    /\ op.purged = {op.key}
    /\ \E i \in 1..Len(thread_id_cache) :
           thread_id_cache[i].timestamp >= 0 /\ ~Unexpired(thread_id_cache[i])

(* the last step was a put with an empty series, season or thread id *)
EmptyPut == op'.name = "put" /\ (op'.key = NoKey \/ op'.arg = "")

(* the forum search of the step found nothing, or was not made *)
FoundNothing == \A k \in 1..Len(search'.events) :
                    search'.events[k].ev = "query" => ~search'.events[k].hit

(* what the lookup of lines 716-734 may do to the cache before the search *)
LookupOnly ==
    LET key == CacheKey(TitleSeries(search'.title), TitleSeason(search'.title))
    IN /\ thread_id_cache' \in {thread_id_cache, Delete(thread_id_cache, key)}
       /\ EventAt(search'.events, "del") = 0 => cache_file' = cache_file

(* C35 as stated: a search_thread whose forum search finds nothing, like a
   put with an empty series, season or thread id, leaves the cache in memory
   and the cache file unchanged *)
C35_NothingFoundUnchanged ==
    [][((SearchStep /\ FoundNothing) \/ EmptyPut)
          => /\ thread_id_cache' = thread_id_cache
             /\ cache_file' = cache_file]_vars

(* C35: search_thread puts an entry only when the forum search returned a
   thread, series and season were extracted from the query and the thread URL
   holds a thread id.  A search that finds nothing adds and replaces no entry
   and purges and evicts nothing: all it can do to the cache is what its
   lookup does, removing the entry of its own series and season.  A put with
   an empty series, season or thread id leaves cache and file unchanged *)
C35_WriteOnlyOnHit ==
    [][/\ SearchStep =>
              LET ev == search'.events
                  series == TitleSeries(search'.title)
                  digits == _extract_season_number(search'.title)
              IN /\ EventAt(ev, "put") # 0 =>
                        /\ EventAt(ev, "query") # 0
                        /\ ev[EventAt(ev, "query")].hit
                        /\ Known(series, digits)
                        /\ extract_thread_id_from_url(search'.ret) # None
                 /\ EventAt(ev, "put") = 0 => LookupOnly
                 /\ FoundNothing => EventAt(ev, "put") = 0
       /\ EmptyPut =>
              /\ thread_id_cache' = thread_id_cache
              /\ cache_file' = cache_file
              /\ op'.purged = {} /\ op'.evicted = {}]_vars

(* a search that found nothing after the cached id had gone stale: the entry
   of the pair is gone, the other entry is still there *)
C35_Witness ==
    /\ search.call = "search_thread"
    /\ EventAt(search.events, "del") # 0
    /\ EventAt(search.events, "query") # 0
    /\ ~search.events[EventAt(search.events, "query")].hit
    /\ Len(thread_id_cache) = 1

(* C36 as stated: at every instant and for every entry of the cache, a get of
   the entry's series and season returns None exactly when the purge of a put
   at that instant would remove the entry *)
C36_SameExpiry ==
    \A s \in {"A", "Show", "Apollos13"} :
        \A n \in {IntSeason(1), StrSeason(<<0, 1>>), StrSeason(<<1, 3>>)} :
            HasKey(thread_id_cache, CacheKey(s, n)) =>
                (GetResult(thread_id_cache, s, n, now) = None
                    <=> PurgeRemoves(Lookup(thread_id_cache, CacheKey(s, n)), now))

(* the calls of one kind among the calls made on the torrent client *)
ClientCalls(calls, name) == SelectSeq(calls, LAMBDA c : c.name = name)

(* C37: in one run remove_torrent is called at most once, while the first
   magnet is processed, with filtering active and the codes of the first
   magnet disjoint from the needed episodes, and for a torrent of the client
   whose hash is the hash of the first magnet; no other torrent leaves the
   client, and after a search or removal that failed no later magnet calls
   remove_torrent *)
C37_RemoveOnce ==
    [][run'.pc \in {"loop", "done"} =>
          LET log == run'.loop.log
              removes == ClientCalls(run'.loop.calls, "remove_torrent")
              before == ClientCalls(run.loop.calls, "remove_torrent")
          IN /\ Len(removes) <= 1
             /\ \A k \in 2..Len(log) : ClientCalls(log[k].calls, "remove_torrent") = <<>>
             /\ removes # <<>> =>
                    /\ ClientCalls(log[1].calls, "remove_torrent") = removes
                    /\ run'.needed_episodes # {}
                    /\ ~run'.process_all_episodes
                    /\ log[1].episode_codes_found \cap run'.needed_episodes = {}
                    /\ run'.first_magnet_hash =
                           get_torrent_hash_from_magnet(run'.magnets[1].magnet)
                    /\ Lower(removes[1].arg) = run'.first_magnet_hash
             /\ Len(removes) > Len(before) =>
                    run.i = 0 /\ removes[1].arg \in run.loop.torrents
             /\ \A h \in run.loop.torrents \ run'.loop.torrents :
                    removes = <<Call("remove_torrent", h, TRUE)>> /\ before = <<>>]_vars

(* the torrent of the first magnet was removed, the other torrent of the
   client is still there after the second magnet *)
C37_Witness ==
    /\ run.pc = "done"
    /\ Len(run.loop.log) = 2
    /\ ClientCalls(run.loop.calls, "remove_torrent") = <<Call("remove_torrent", "aa", TRUE)>>
    /\ "cc" \in run.loop.torrents
    /\ "aa" \notin run.loop.torrents

(* C38: add_magnet and remove_torrent are called only in a run whose startup
   went through all its steps in order: release title not empty, forum
   session verified or login succeeded, torrent client login succeeded,
   thread found, at least one magnet extracted.  A run in which a step failed
   has stopped at that step and has called neither *)
C38_StartupFirst ==
    LET changes == SelectSeq(run.loop.calls,
                       LAMBDA c : c.name \in {"add_magnet", "remove_torrent"})
        order == <<"release_title", "forum", "client", "thread", "magnets">>
    IN run.pc # "none" =>
          /\ Len(run.steps) <= Len(order)
          /\ \A k \in 1..Len(run.steps) :
                 /\ run.steps[k].step = order[k]
                 /\ k < Len(run.steps) => run.steps[k].ok
          /\ changes # <<>> =>
                 /\ Len(run.steps) = Len(order)
                 /\ \A k \in 1..Len(order) : run.steps[k].ok
                 /\ run.env.release_title # <<>> /\ run.magnets # <<>>
          /\ (run.steps # <<>> /\ ~run.steps[Len(run.steps)].ok) =>
                 /\ run.pc \in {"exit", "return"}
                 /\ run.loop.calls = <<>>
          /\ run.pc \in {"exit", "return"} =>
                 (run.steps # <<>> /\ ~run.steps[Len(run.steps)].ok)

(* a run that passed all five steps and then added a magnet *)
C38_Witness ==
    /\ run.pc = "done"
    /\ Len(run.steps) = 5
    /\ run.steps[5] = StartupStep("magnets", TRUE)
    /\ ClientCalls(run.loop.calls, "add_magnet") # <<>>

(* the list the loop of lines 1032-1035 has run over when it ends *)
LoopList(parent, magnet_element) ==
    ExtendWithSiblings(parent, Parents(parent, magnet_element, 5), 1)

(* C39: for every page and every magnet element the loop of
   extract_episode_info over the list it extends comes to an end: it makes at
   most five passes per node of the page, plus one for each starting ancestor;
   the candidates whose text is scanned are nodes of the page, each once, so
   there are no more of them than nodes *)
C39_ContextBounded ==
    /\ info.call = "none" =>
           Len(LoopList(info.parent, info.magnet_element)) <= 5 * Len(info.parent) + 5
    /\ info.call = "extract_episode_info" =>
           /\ Len(info.context_elements) <= Len(info.parent)
           /\ \A k \in 1..Len(info.context_elements) :
                  /\ info.context_elements[k] \in 1..Len(info.parent)
                  /\ \A j \in 1..(k - 1) :
                         info.context_elements[j] # info.context_elements[k]

(* a page of seven nodes all of which are candidates, the loop having run
   over more list elements than the page has nodes *)
C39_Witness ==
    /\ info.call = "extract_episode_info"
    /\ Len(info.parent) = 7
    /\ Len(info.context_elements) = 7
    /\ Len(LoopList(info.parent, info.magnet_element)) > 7

====
